---- MODULE Spec2Model ----
(***************************************************************************)
(* Rollup compression of go-ten (go/enclave/components, RollupCompression).*)
(* A sequencer holds an L2 history of batches, builds a rollup over a      *)
(* contiguous range of sequence numbers and compresses it with             *)
(* CreateExtRollup; validator nodes run ProcessExtRollup on the result,    *)
(* one batch of the rollup per step.                                       *)
(***************************************************************************)
EXTENDS Integers, Sequences, FiniteSets, TLC

\* ------------------------------------------------------------------ bounds
\* number of batches of the L2 history held by the sequencer
MaxBatches == 3
\* batch times are drawn from 0..MaxTime
MaxTime == 1
\* successful ProcessExtRollup calls per node (failed calls are not limited)
MaxCalls == 2
\* width of the machine words of the model (uint64 / int64 scaled down)
WordBits == 4

\* ------------------------------------------------------------------ words
Word == 2 ^ WordBits
HalfWord == 2 ^ (WordBits - 1)

\* conversion to uint64: the value modulo the word size
U64(x) == x % Word

\* conversion to int64: two's complement reading of the low bits
I64(x) == LET u == x % Word IN IF u >= HalfWord THEN u - Word ELSE u

\* big.Int.GobEncode: a sign and a magnitude
GobEncode(x) == IF x < 0 THEN <<"neg", 0 - x>> ELSE <<"pos", x>>

\* big.Int.GobDecode
GobDecode(bs) == IF bs[1] = "neg" THEN 0 - bs[2] ELSE bs[2]

\* big.Int.Uint64: the low bits of the magnitude, whatever the sign
BigUint64(x) == (IF x < 0 THEN 0 - x ELSE x) % Word

\* ------------------------------------------------------------------ L1
NoBlock == "none"

\* The L1 blocks known to the sequencer: a main chain a0-a1-a2 and a fork f1.
L1Blocks ==
    { [hash |-> "a0", number |-> 0, parent |-> NoBlock],
      [hash |-> "a1", number |-> 1, parent |-> "a0"],
      [hash |-> "a2", number |-> 2, parent |-> "a1"],
      [hash |-> "f1", number |-> 1, parent |-> "a0"] }

L1Hashes == {b.hash : b \in L1Blocks}

BlockOf(h) == CHOOSE b \in L1Blocks : b.hash = h

RECURSIVE IsL1Ancestor(_, _)
\* a is h itself or an ancestor of h
IsL1Ancestor(a, h) ==
    IF a = h THEN TRUE
    ELSE IF BlockOf(h).parent = NoBlock THEN FALSE
    ELSE IsL1Ancestor(a, BlockOf(h).parent)

\* ------------------------------------------------------------------ L2 data
L2GenesisSeqNo == 0

ZeroHash == <<>>

\* hash of a batch header: injective
Hash(header) == <<"hash", header>>

EmptyRootHash == <<"emptyroot">>

\* types.DeriveSha over the transactions of a batch
DeriveSha(txs) == <<"sha", txs>>

\* coinbase, base fee and gas limit are the same for every batch of the history
TheCoinbase == "coinbase"
TheBaseFee == "basefee"
TheGasLimit == "gaslimit"

\* rlp encoding of a batch header: a non-empty byte string
RlpEncodeHeader(header) == <<"rlp", header>>

RlpDecodeHeader(bs) == bs[2]

\* ------------------------------------------------------------------ storage
\* The batch store is a set of batches, read by hash and by sequence number.

\* storage.FetchBatch(hash): the stored batches with that hash (none: not found)
FetchBatch(batches, hash) == {b \in batches : Hash(b.Header) = hash}

\* storage.FetchBatchBySeqNo(seq)
FetchBatchBySeqNo(batches, seq) == {b \in batches : b.Header.SequencerNo = seq}

\* storage.StoreBatch(batch): keyed by sequence number
StoreBatch(batches, batch) ==
    {b \in batches : b.Header.SequencerNo # batch.Header.SequencerNo} \cup {batch}

\* storage.FetchBlock(hash) on a block store
FetchBlock(blocks, hash) == {b \in blocks : b.hash = hash}

\* ------------------------------------------------------------------ executor
\* BatchExecutor.CreateGenesisState(l1Proof, time, coinbase, baseFee)
CreateGenesisState(l1Proof, time, coinbase, baseFee) ==
    [ Header |-> [ SequencerNo |-> L2GenesisSeqNo, Number |-> 0, Time |-> time,
                   L1Proof |-> l1Proof, ParentHash |-> ZeroHash,
                   TxHash |-> EmptyRootHash, Coinbase |-> coinbase,
                   BaseFee |-> baseFee, GasLimit |-> TheGasLimit ],
      Transactions |-> <<>> ]

\* BatchExecutor.ComputeBatch(ctx) on top of the parent batch named by ctx.ParentPtr
ComputeBatch(ctx, parent) ==
    [ Header |-> [ SequencerNo |-> ctx.SequencerNo, Number |-> parent.Header.Number + 1,
                   Time |-> ctx.AtTime, L1Proof |-> ctx.BlockPtr,
                   ParentHash |-> ctx.ParentPtr,
                   TxHash |-> IF ctx.Transactions = <<>> THEN EmptyRootHash
                              ELSE DeriveSha(ctx.Transactions),
                   Coinbase |-> ctx.Creator, BaseFee |-> ctx.BaseFee,
                   GasLimit |-> TheGasLimit ],
      Transactions |-> ctx.Transactions ]

\* BatchExecutor.ComputeBatch(ctx) against the node's batches: the parent batch
\* has to be there
executorComputeBatch(batches, ctx) ==
    LET parents == {b \in batches : Hash(b.Header) = ctx.ParentPtr}
    IN IF parents = {} THEN [err |-> "parent batch not found", val |-> <<>>]
       ELSE [err |-> "", val |-> ComputeBatch(ctx, CHOOSE b \in parents : TRUE)]

\* ------------------------------------------------------------------ history
\* The sequencer's L2 history: position k holds the batch of sequence number
\* L2GenesisSeqNo + k - 1. Every batch but the first names an earlier batch as
\* its parent and has as L1 proof the proof of its parent or a child block of it.
Positions == 1..MaxBatches

SeqOf(k) == L2GenesisSeqNo + k - 1

TxsOf(k) == IF k % 2 = 0 THEN <<"tx">> ELSE <<>>

ParentChoices ==
    {p \in [Positions -> 0..(MaxBatches - 1)] : \A k \in Positions : p[k] < k /\ (k > 1 => p[k] >= 1)}

\* batch times: the first is 0, the others step by a fixed amount modulo
\* MaxTime + 1, so that times rise, stay and fall along the history
TimeChoices == {[k \in Positions |-> (a * (k - 1)) % (MaxTime + 1)] : a \in 0..MaxTime}

ProofChoices(p) ==
    {q \in [Positions -> L1Hashes] :
        /\ q[1] = "a0"
        /\ \A k \in Positions :
              k > 1 => (q[k] = q[p[k]] \/ BlockOf(q[k]).parent = q[p[k]])}

RECURSIVE MkBatch(_, _, _, _)
MkBatch(p, t, q, k) ==
    IF k = 1 THEN CreateGenesisState(q[1], t[1], TheCoinbase, TheBaseFee)
    ELSE LET parent == MkBatch(p, t, q, p[k])
         IN ComputeBatch([ BlockPtr |-> q[k], ParentPtr |-> Hash(parent.Header),
                           Transactions |-> TxsOf(k), AtTime |-> t[k],
                           Creator |-> TheCoinbase, SequencerNo |-> SeqOf(k),
                           BaseFee |-> TheBaseFee ], parent)

Histories ==
    UNION { UNION { { [k \in Positions |-> MkBatch(p, t, q, k)] : q \in ProofChoices(p) }
                    : t \in TimeChoices }
            : p \in ParentChoices }

RECURSIVE IsL2Ancestor(_, _, _)
\* position a is position k itself or an ancestor of it in history h
IsL2Ancestor(h, a, k) ==
    IF a = k THEN TRUE
    ELSE IF k = 1 THEN FALSE
    ELSE \E j \in 1..(k - 1) :
            /\ Hash(h[j].Header) = h[k].Header.ParentHash
            /\ IsL2Ancestor(h, a, j)

\* the canonical batches are the head batch (the last one) and its ancestors
CanonicalPositions(h) == {k \in Positions : IsL2Ancestor(h, k, MaxBatches)}

\* storage.FetchNonCanonicalBatchesBetween(lo, hi) on the sequencer
FetchNonCanonicalBatchesBetween(h, lo, hi) ==
    {h[k] : k \in {j \in Positions \ CanonicalPositions(h) : SeqOf(j) >= lo /\ SeqOf(j) <= hi}}

\* ------------------------------------------------------------------ builder
\* a nil slice and a slice with elements are told apart
NilSlice == [isNil |-> TRUE, elems |-> <<>>]

Slice(elems) == [isNil |-> FALSE, elems |-> elems]

IsReorgPointer(r) == r # <<>>

transformToByteArrayCompact(reorgs) ==
    LET carried == SelectSeq(reorgs, IsReorgPointer)
    IN [i \in 1..Len(carried) |-> RlpEncodeHeader(carried[i][1])]

\* transformToByteArray: a reorg pointer is <<>> (nil) or <<header>>
transformToByteArray(reorgs) ==
    [i \in 1..Len(reorgs) |->
        IF reorgs[i] # <<>> THEN RlpEncodeHeader(reorgs[i][1]) ELSE <<>>]

timeDeltaUnsigned(time, prev) == U64(time - prev)

\* deltaTimes[i] = big.NewInt(int64(batch.Header.Time - prev)), times being uint64
timeDelta(time, prev) == I64(U64(time - prev))

l1HeightDeltaAbsolute(i, number, prevL1Height) == number

l1HeightDeltaFirstZero(i, number, prevL1Height) ==
    IF i = 1 THEN 0 ELSE I64(I64(number) - I64(prevL1Height))

\* l1HeightDeltas[i]: the height itself at index 0, then int64 differences
l1HeightDelta(i, number, prevL1Height) ==
    IF i = 1 THEN number ELSE I64(I64(number) - I64(prevL1Height))

\* the map of sequence numbers is asked with the height of the batch
reorgEntryByNumber(batch, reorgMap) ==
    IF batch.Header.Number \in reorgMap THEN <<batch.Header>> ELSE <<>>

\* reorgs[i] = batch.Header when the store lists the batch as non-canonical
reorgEntry(batch, reorgMap) ==
    IF batch.Header.SequencerNo \in reorgMap THEN <<batch.Header>> ELSE <<>>

reorgsFieldAlways(reorgsBA, reorgedBatches) == Slice(reorgsBA)

\* "optimisation in case there is no reorg header"
reorgsField(reorgsBA, reorgedBatches) ==
    IF Cardinality(reorgedBatches) = 0 THEN NilSlice ELSE Slice(reorgsBA)

firstCanonIdxNoBreak(reorgs) ==
    IF \E i \in 1..Len(reorgs) : reorgs[i] = <<>>
    THEN CHOOSE i \in 1..Len(reorgs) :
            reorgs[i] = <<>> /\ \A j \in (i + 1)..Len(reorgs) : reorgs[j] # <<>>
    ELSE 1

\* index of the batch the first canonical height and parent hash are taken from
firstCanonIdx(reorgs) ==
    IF \E i \in 1..Len(reorgs) : reorgs[i] = <<>>
    THEN CHOOSE i \in 1..Len(reorgs) :
            reorgs[i] = <<>> /\ \A j \in 1..(i - 1) : reorgs[j] # <<>>
    ELSE 1

\* RollupCompression.createRollupHeader on the sequencer, whose store holds history h
createRollupHeader(rollup, h) ==
    LET batches == rollup.Batches
        n == Len(batches)
        startTime == batches[1].Header.Time
        reorgedBatches ==
            FetchNonCanonicalBatchesBetween(h, batches[1].Header.SequencerNo,
                                            batches[n].Header.SequencerNo)
        reorgMap == {b.Header.SequencerNo : b \in reorgedBatches}
        reorgs == [i \in 1..n |-> reorgEntry(batches[i], reorgMap)]
        deltaTimes ==
            [i \in 1..n |->
                timeDelta(batches[i].Header.Time,
                          IF i = 1 THEN startTime ELSE batches[i - 1].Header.Time)]
        blockOf(i) == rollup.Blocks[batches[i].Header.L1Proof]
        l1HeightDeltas ==
            [i \in 1..n |->
                l1HeightDelta(i, blockOf(i).number,
                              IF i = 1 THEN 0 ELSE blockOf(i - 1).number)]
        fc == firstCanonIdx(reorgs)
    IN [ FirstBatchSequence |-> batches[1].Header.SequencerNo,
         FirstCanonBatchHeight |-> batches[fc].Header.Number,
         FirstCanonParentHash |-> batches[fc].Header.ParentHash,
         StartTime |-> startTime,
         BatchTimeDeltas |-> [i \in 1..n |-> GobEncode(deltaTimes[i])],
         ReOrgs |-> reorgsField(transformToByteArray(reorgs), reorgedBatches),
         L1HeightDeltas |-> [i \in 1..n |-> GobEncode(l1HeightDeltas[i])],
         Coinbase |-> batches[1].Header.Coinbase,
         BaseFee |-> batches[1].Header.BaseFee,
         GasLimit |-> batches[1].Header.GasLimit ]

\* ------------------------------------------------------------------ envelope
\* results of the fallible steps: err is "" on success
Ok(v) == [err |-> "", val |-> v]

Err(e) == [err |-> e, val |-> <<>>]

\* rlp.EncodeToBytes of a CalldataRollupHeader: ReOrgs is the optional last
\* field, left out of the encoding when the slice is nil
RlpEncodeCalldataHeader(header) ==
    <<"rlp", "header",
      [header EXCEPT !.ReOrgs = IF header.ReOrgs.isNil THEN <<>> ELSE <<header.ReOrgs.elems>>]>>

\* rlp.DecodeBytes into a CalldataRollupHeader: a field left out decodes to nil,
\* a list to a non-nil slice
RlpDecodeCalldataHeader(bs) ==
    IF Len(bs) = 3 /\ bs[1] = "rlp" /\ bs[2] = "header"
    THEN Ok([bs[3] EXCEPT !.ReOrgs = IF bs[3].ReOrgs = <<>> THEN NilSlice
                                     ELSE Slice(bs[3].ReOrgs[1])])
    ELSE Err("rlp: decoding failed")

\* rlp.EncodeToBytes / DecodeBytes of the per-batch transaction lists
RlpEncodeTransactions(txs) == <<"rlp", "transactions", txs>>

RlpDecodeTransactions(bs) ==
    IF Len(bs) = 3 /\ bs[1] = "rlp" /\ bs[2] = "transactions" THEN Ok(bs[3])
    ELSE Err("rlp: decoding failed")

\* rlp.EncodeToBytes(obj) / rlp.DecodeBytes(blob, obj): the type of obj selects
\* the encoding; kind is "header" or "transactions"
RlpEncodeToBytes(kind, obj) ==
    IF kind = "header" THEN RlpEncodeCalldataHeader(obj) ELSE RlpEncodeTransactions(obj)

RlpDecodeBytes(kind, bs) ==
    IF kind = "header" THEN RlpDecodeCalldataHeader(bs) ELSE RlpDecodeTransactions(bs)

\* dataCompressionService.CompressRollup / Decompress
CompressRollup(bs) == <<"gzip", bs>>

Decompress(bs) ==
    IF Len(bs) = 2 /\ bs[1] = "gzip" THEN Ok(bs[2]) ELSE Err("decompression failed")

\* dataEncryptionService.Encrypt / Decrypt with the shared enclave key; the
\* encryption is authenticated
Encrypt(bs) == <<"sealed", bs>>

Decrypt(bs) ==
    IF Len(bs) = 2 /\ bs[1] = "sealed" THEN Ok(bs[2]) ELSE Err("authentication failed")

serialiseAndEncrypt(kind, obj) == Encrypt(RlpEncodeToBytes(kind, obj))

\* RollupCompression.serialiseCompressAndEncrypt
serialiseCompressAndEncrypt(kind, obj) ==
    Encrypt(CompressRollup(RlpEncodeToBytes(kind, obj)))

decryptDecompressAndDeserialiseUnauthenticated(kind, blob) ==
    LET serialisedBlob == Decompress(blob[2])
    IN IF serialisedBlob.err # "" THEN serialisedBlob
       ELSE RlpDecodeBytes(kind, serialisedBlob.val)

\* RollupCompression.decryptDecompressAndDeserialise
decryptDecompressAndDeserialise(kind, blob) ==
    LET plaintextBlob == Decrypt(blob)
        serialisedBlob == Decompress(plaintextBlob.val)
    IN IF plaintextBlob.err # "" THEN plaintextBlob
       ELSE IF serialisedBlob.err # "" THEN serialisedBlob
       ELSE RlpDecodeBytes(kind, serialisedBlob.val)

\* the outer header is rebuilt with the L1 proof of the last batch as head
CreateExtRollupHeadOfLastBatch(r, h) ==
    LET header == createRollupHeader(r, h)
        transactions == [i \in 1..Len(r.Batches) |-> r.Batches[i].Transactions]
    IN [ Header |-> [r.Header EXCEPT
                        !.CompressionL1Head = r.Batches[Len(r.Batches)].Header.L1Proof],
         BatchPayloads |-> serialiseCompressAndEncrypt("transactions", transactions),
         CalldataRollupHeader |-> serialiseCompressAndEncrypt("header", header) ]

\* RollupCompression.CreateExtRollup with the sequencer's store holding h
CreateExtRollup(r, h) ==
    LET header == createRollupHeader(r, h)
        transactions == [i \in 1..Len(r.Batches) |-> r.Batches[i].Transactions]
    IN [ Header |-> r.Header,
         BatchPayloads |-> serialiseCompressAndEncrypt("transactions", transactions),
         CalldataRollupHeader |-> serialiseCompressAndEncrypt("header", header) ]

\* ------------------------------------------------------------------ reconstruction
RECURSIVE l1HeightAtUnsigned(_, _)
\* the sign of a delta is dropped
l1HeightAtUnsigned(deltas, i) ==
    IF i = 1 THEN Ok(BigUint64(GobDecode(deltas[1])))
    ELSE LET prev == l1HeightAtUnsigned(deltas, i - 1)
             value == I64(I64(deltas[i][2]) + I64(prev.val))
         IN IF prev.err # "" THEN prev
            ELSE IF value < 0 THEN Err("crit: negative height")
            ELSE Ok(U64(value))

RECURSIVE l1HeightAt(_, _)
\* calculateL1HeightsFromDeltas, entry i (1-based): the running int64 sum; a
\* negative running sum is logged as critical
l1HeightAt(deltas, i) ==
    IF i = 1 THEN Ok(BigUint64(GobDecode(deltas[1])))
    ELSE LET prev == l1HeightAt(deltas, i - 1)
             value == I64(I64(GobDecode(deltas[i])) + I64(prev.val))
         IN IF prev.err # "" THEN prev
            ELSE IF value < 0 THEN Err("crit: negative height")
            ELSE Ok(U64(value))

\* RollupCompression.calculateL1HeightsFromDeltas
calculateL1HeightsFromDeltas(calldataRollupHeader, transactionsPerBatch) ==
    LET deltas == calldataRollupHeader.L1HeightDeltas
        n == Len(transactionsPerBatch)
    IN IF Len(deltas) = 0 \/ Len(deltas) < n THEN Err("panic: index out of range")
       ELSE IF \E i \in 1..n : l1HeightAt(deltas, i).err # ""
            THEN Err("crit: negative height")
       ELSE IF n = 0 THEN Ok(<<BigUint64(GobDecode(deltas[1]))>>)
       ELSE Ok([i \in 1..n |-> l1HeightAt(deltas, i).val])

RECURSIVE calcL1AncestorsOfHeightStops(_, _, _, _)
\* the walk ends without error at a block whose parent is not in the block store
calcL1AncestorsOfHeightStops(blocks, fromHeight, toBlock, path) ==
    LET path1 == {b \in path : b.number # toBlock.number} \cup {toBlock}
    IN IF toBlock.number = U64(fromHeight) THEN Ok(path1)
       ELSE LET p == FetchBlock(blocks, toBlock.parent)
            IN IF p = {} THEN Ok(path1)
               ELSE calcL1AncestorsOfHeightStops(blocks, fromHeight, CHOOSE b \in p : TRUE, path1)

RECURSIVE calcL1AncestorsOfHeightAtOrBelow(_, _, _, _)
\* the walk ends at the first block at or below the last height
calcL1AncestorsOfHeightAtOrBelow(blocks, fromHeight, toBlock, path) ==
    LET path1 == {b \in path : b.number # toBlock.number} \cup {toBlock}
    IN IF toBlock.number <= U64(fromHeight) THEN Ok(path1)
       ELSE LET p == FetchBlock(blocks, toBlock.parent)
            IN IF p = {} THEN Err("block not found")
               ELSE calcL1AncestorsOfHeightAtOrBelow(blocks, fromHeight,
                                                     CHOOSE b \in p : TRUE, path1)

RECURSIVE calcL1AncestorsOfHeightTestFirst(_, _, _, _)
\* the block is put into the map after the test for the last height
calcL1AncestorsOfHeightTestFirst(blocks, fromHeight, toBlock, path) ==
    LET path1 == {b \in path : b.number # toBlock.number} \cup {toBlock}
    IN IF toBlock.number = U64(fromHeight) THEN Ok(path)
       ELSE LET p == FetchBlock(blocks, toBlock.parent)
            IN IF p = {} THEN Err("block not found")
               ELSE calcL1AncestorsOfHeightTestFirst(blocks, fromHeight,
                                                     CHOOSE b \in p : TRUE, path1)

RECURSIVE calcL1AncestorsOfHeight(_, _, _, _)
\* RollupCompression.calcL1AncestorsOfHeight: path is the set of blocks gathered
calcL1AncestorsOfHeight(blocks, fromHeight, toBlock, path) ==
    LET path1 == {b \in path : b.number # toBlock.number} \cup {toBlock}
    IN IF toBlock.number = U64(fromHeight) THEN Ok(path1)
       ELSE LET p == FetchBlock(blocks, toBlock.parent)
            IN IF p = {} THEN Err("block not found")
               ELSE calcL1AncestorsOfHeight(blocks, fromHeight, CHOOSE b \in p : TRUE, path1)

SeqMin(s) == CHOOSE x \in {s[i] : i \in 1..Len(s)} : \A j \in 1..Len(s) : x <= s[j]

\* with a ReOrgs vector present every index has a header: the decoded entry,
\* or the zero header for an empty entry
carriedHeaderOfPresentVector(calldataRollupHeader, i) ==
    IF Len(calldataRollupHeader.ReOrgs.elems) > 0
    THEN IF Len(calldataRollupHeader.ReOrgs.elems[i]) > 0
         THEN <<RlpDecodeHeader(calldataRollupHeader.ReOrgs.elems[i])>>
         ELSE <<[ SequencerNo |-> 0, Number |-> 0, Time |-> 0, L1Proof |-> "",
                  ParentHash |-> ZeroHash, TxHash |-> EmptyRootHash, Coinbase |-> "",
                  BaseFee |-> "", GasLimit |-> "" ]>>
    ELSE <<>>

\* the reorg header carried for index i: <<>> for a canonical batch
carriedHeader(calldataRollupHeader, i) ==
    IF Len(calldataRollupHeader.ReOrgs.elems) > 0
    THEN IF Len(calldataRollupHeader.ReOrgs.elems[i]) > 0
         THEN <<RlpDecodeHeader(calldataRollupHeader.ReOrgs.elems[i])>>
         ELSE <<>>
    ELSE <<>>

nextHeightAlways(currentHeight, isCanonical) == I64(currentHeight + 1)

\* "only if the batch is canonical, increment the height"
nextHeight(currentHeight, isCanonical) ==
    IF isCanonical THEN I64(currentHeight + 1) ELSE currentHeight

RECURSIVE currentHeightAt(_, _)
\* the height counter after the iteration of index i (0: before the loop)
currentHeightAt(calldataRollupHeader, i) ==
    IF i = 0 THEN I64(I64(calldataRollupHeader.FirstCanonBatchHeight) - 1)
    ELSE nextHeight(currentHeightAt(calldataRollupHeader, i - 1),
                    carriedHeader(calldataRollupHeader, i) = <<>>)

RECURSIVE currentTimeAt(_, _)
\* the time counter after the iteration of index i (0: before the loop)
currentTimeAt(calldataRollupHeader, i) ==
    IF i = 0 THEN I64(calldataRollupHeader.StartTime)
    ELSE I64(currentTimeAt(calldataRollupHeader, i - 1)
             + I64(GobDecode(calldataRollupHeader.BatchTimeDeltas[i])))

\* the height of a reorg record is read from the header carried for it
incompleteBatchHeightOfHeader(calldataRollupHeader, transactionsPerBatch, l1Heights, l1BlocksAtHeight, i) ==
    LET block == CHOOSE b \in l1BlocksAtHeight : b.number = l1Heights[i]
        batchTransactions == transactionsPerBatch[i]
        carried == carriedHeader(calldataRollupHeader, i)
    IN [ transactions |-> batchTransactions,
         seqNo |-> I64(calldataRollupHeader.FirstBatchSequence) + (i - 1),
         height |-> IF carried # <<>> THEN carried[1].Number
                    ELSE currentHeightAt(calldataRollupHeader, i),
         txHash |-> IF Len(batchTransactions) = 0 THEN EmptyRootHash
                    ELSE DeriveSha(batchTransactions),
         time |-> U64(currentTimeAt(calldataRollupHeader, i)),
         l1Proof |-> block.hash,
         header |-> carried,
         coinbase |-> calldataRollupHeader.Coinbase,
         baseFee |-> calldataRollupHeader.BaseFee,
         gasLimit |-> calldataRollupHeader.GasLimit ]

\* the sequence number advances with the height: for canonical batches only
incompleteBatchSeqOfHeight(calldataRollupHeader, transactionsPerBatch, l1Heights, l1BlocksAtHeight, i) ==
    LET block == CHOOSE b \in l1BlocksAtHeight : b.number = l1Heights[i]
        batchTransactions == transactionsPerBatch[i]
    IN [ transactions |-> batchTransactions,
         seqNo |-> I64(calldataRollupHeader.FirstBatchSequence)
                       + (currentHeightAt(calldataRollupHeader, i)
                              - currentHeightAt(calldataRollupHeader, 1)),
         height |-> currentHeightAt(calldataRollupHeader, i),
         txHash |-> IF Len(batchTransactions) = 0 THEN EmptyRootHash
                    ELSE DeriveSha(batchTransactions),
         time |-> U64(currentTimeAt(calldataRollupHeader, i)),
         l1Proof |-> block.hash,
         header |-> carriedHeader(calldataRollupHeader, i),
         coinbase |-> calldataRollupHeader.Coinbase,
         baseFee |-> calldataRollupHeader.BaseFee,
         gasLimit |-> calldataRollupHeader.GasLimit ]

\* the record built for index i by the loop of createIncompleteBatches
incompleteBatch(calldataRollupHeader, transactionsPerBatch, l1Heights, l1BlocksAtHeight, i) ==
    LET block == CHOOSE b \in l1BlocksAtHeight : b.number = l1Heights[i]
        batchTransactions == transactionsPerBatch[i]
    IN [ transactions |-> batchTransactions,
         seqNo |-> I64(calldataRollupHeader.FirstBatchSequence) + (i - 1),
         height |-> currentHeightAt(calldataRollupHeader, i),
         txHash |-> IF Len(batchTransactions) = 0 THEN EmptyRootHash
                    ELSE DeriveSha(batchTransactions),
         time |-> U64(currentTimeAt(calldataRollupHeader, i)),
         l1Proof |-> block.hash,
         header |-> carriedHeader(calldataRollupHeader, i),
         coinbase |-> calldataRollupHeader.Coinbase,
         baseFee |-> calldataRollupHeader.BaseFee,
         gasLimit |-> calldataRollupHeader.GasLimit ]

\* the error that ends the iteration of index i of the loop of
\* createIncompleteBatches ("" when there is none): an index past the end of a
\* slice makes the Go runtime panic
loopError(calldataRollupHeader, l1Heights, l1BlocksAtHeight, i) ==
    IF ~ \E b \in l1BlocksAtHeight : b.number = l1Heights[i]
    THEN "programming error. L1 block not retrieved"
    ELSE IF Len(calldataRollupHeader.BatchTimeDeltas) < i THEN "panic: index out of range"
    ELSE IF /\ Len(calldataRollupHeader.ReOrgs.elems) > 0
            /\ Len(calldataRollupHeader.ReOrgs.elems) < i
         THEN "panic: index out of range"
    ELSE ""

\* records are built for as many batches as the shortest of the vectors has
\* entries, and the transaction lists beyond are left for later
createIncompleteBatchesShortest(calldataRollupHeader, transactionsPerBatch, compressionL1Head, blocks) ==
    LET n == IF Len(transactionsPerBatch) <= Len(calldataRollupHeader.L1HeightDeltas)
             THEN Len(transactionsPerBatch)
             ELSE Len(calldataRollupHeader.L1HeightDeltas)
        rollupL1Block == FetchBlock(blocks, compressionL1Head)
        l1Heights == calculateL1HeightsFromDeltas(calldataRollupHeader,
                                                  SubSeq(transactionsPerBatch, 1, n))
        ancestors == calcL1AncestorsOfHeight(blocks, SeqMin(l1Heights.val),
                                             CHOOSE b \in rollupL1Block : TRUE, {})
    IN IF rollupL1Block = {} THEN Err("can't find the block used for compression")
       ELSE IF l1Heights.err # "" THEN l1Heights
       ELSE IF ancestors.err # "" THEN ancestors
       ELSE Ok([i \in 1..n |->
                    incompleteBatch(calldataRollupHeader, transactionsPerBatch,
                                    l1Heights.val, ancestors.val, i)])

\* RollupCompression.createIncompleteBatches on a node whose block store is blocks
createIncompleteBatches(calldataRollupHeader, transactionsPerBatch, compressionL1Head, blocks) ==
    LET n == Len(transactionsPerBatch)
        rollupL1Block == FetchBlock(blocks, compressionL1Head)
        l1Heights == calculateL1HeightsFromDeltas(calldataRollupHeader, transactionsPerBatch)
        ancestors == calcL1AncestorsOfHeight(blocks, SeqMin(l1Heights.val),
                                             CHOOSE b \in rollupL1Block : TRUE, {})
    IN IF rollupL1Block = {} THEN Err("can't find the block used for compression")
       ELSE IF l1Heights.err # "" THEN l1Heights
       ELSE IF ancestors.err # "" THEN ancestors
       ELSE IF \E i \in 1..n : loopError(calldataRollupHeader, l1Heights.val, ancestors.val, i) # ""
            THEN LET first == CHOOSE i \in 1..n :
                                 /\ loopError(calldataRollupHeader, l1Heights.val,
                                              ancestors.val, i) # ""
                                 /\ \A j \in 1..(i - 1) :
                                        loopError(calldataRollupHeader, l1Heights.val,
                                                  ancestors.val, j) = ""
                 IN Err(loopError(calldataRollupHeader, l1Heights.val, ancestors.val, first))
       ELSE Ok([i \in 1..n |->
                    incompleteBatch(calldataRollupHeader, transactionsPerBatch,
                                    l1Heights.val, ancestors.val, i)])

\* ------------------------------------------------------------------ execution
\* One iteration of the loop of executeAndSaveIncompleteBatches. st is the part
\* of the node the loop touches:
\*   batches    the batch store
\*   executed   hashes of the batches stored as executed
\*   committed  hashes of the batches whose state the executor committed
\*   registry   the batches announced by OnBatchExecuted, in order
\*   parentHash the running parent hash
\*   execLog    the calls made to the executor
\*   ops        the collaborator calls of the current call, in order
\* fail names the collaborator call that returns an error in this iteration.

parentAfterStoredStale(incomplete, stored, parentHash) == parentHash

parentAfterStoredAlways(incomplete, stored, parentHash) == Hash(stored.Header)

\* "chain to a parent only if the batch is not a reorg"
parentAfterStored(incomplete, stored, parentHash) ==
    IF incomplete.header = <<>> THEN Hash(stored.Header) ELSE parentHash

parentAfterReorgChained(batch, parentHash) == Hash(batch.Header)

\* the running parent hash after a reorg batch was stored
parentAfterReorg(batch, parentHash) == parentHash

parentAfterExecutedStale(batch, parentHash) == parentHash

\* the running parent hash after a batch was executed and stored
parentAfterExecuted(batch, parentHash) == Hash(batch.Header)

\* RollupCompression.computeBatch: the context handed to the executor
computeBatchContext(incomplete, parentHash) ==
    [ BlockPtr |-> incomplete.l1Proof, ParentPtr |-> parentHash,
      Transactions |-> incomplete.transactions, AtTime |-> incomplete.time,
      Creator |-> incomplete.coinbase, SequencerNo |-> incomplete.seqNo,
      BaseFee |-> incomplete.baseFee ]

\* the collaborator calls of the current ProcessExtRollup call are logged in
\* st.ops, in the order they are made, each with its outcome
logOp(st, op, seqNo, outcome) ==
    [st EXCEPT !.ops = Append(st.ops, [op |-> op, seqNo |-> seqNo, outcome |-> outcome])]

\* the batch is already in the store
stepStored(st, incomplete, stored) ==
    [ st |-> [st EXCEPT !.parentHash = parentAfterStored(incomplete, stored, st.parentHash)],
      result |-> "Skipped" ]

\* the reorg batch is announced to the registry once it is stored
stepReorgAnnounced(st, incomplete, fail) ==
    LET batch == [Header |-> incomplete.header[1], Transactions |-> incomplete.transactions]
    IN IF fail = "store"
       THEN [ st |-> logOp(st, "StoreBatch", batch.Header.SequencerNo, "error"),
              result |-> "error" ]
       ELSE [ st |-> [logOp(st, "StoreBatch", batch.Header.SequencerNo, "ok")
                         EXCEPT !.batches = StoreBatch(st.batches, batch),
                                !.registry = Append(st.registry, Hash(batch.Header)),
                                !.parentHash = parentAfterReorg(batch, st.parentHash)],
              result |-> "StoredReorg" ]

\* the batch was re-orged: it is stored with the carried header
stepReorg(st, incomplete, fail) ==
    LET batch == [Header |-> incomplete.header[1], Transactions |-> incomplete.transactions]
    IN IF fail = "store"
       THEN [ st |-> logOp(st, "StoreBatch", batch.Header.SequencerNo, "error"),
              result |-> "error" ]
       ELSE [ st |-> [logOp(st, "StoreBatch", batch.Header.SequencerNo, "ok")
                         EXCEPT !.batches = StoreBatch(st.batches, batch),
                                !.parentHash = parentAfterReorg(batch, st.parentHash)],
              result |-> "StoredReorg" ]

\* the registry is told before the batch is stored
storeExecutedNotifyFirst(st, batch, fail) ==
    LET seqNo == batch.Header.SequencerNo
        st0 == [logOp(st, "OnBatchExecuted", seqNo, "ok")
                   EXCEPT !.registry = Append(st.registry, Hash(batch.Header))]
    IN IF fail = "store" THEN [st |-> logOp(st0, "StoreBatch", seqNo, "error"), result |-> "error"]
       ELSE LET st1 == [logOp(st0, "StoreBatch", seqNo, "ok")
                           EXCEPT !.batches = StoreBatch(st0.batches, batch)]
            IN IF fail = "storeExecuted"
               THEN [ st |-> logOp(st1, "StoreExecutedBatch", seqNo, "error"),
                      result |-> "error" ]
               ELSE [ st |-> [logOp(st1, "StoreExecutedBatch", seqNo, "ok")
                                 EXCEPT !.executed = st1.executed \cup {Hash(batch.Header)},
                                        !.parentHash = parentAfterExecuted(batch, st1.parentHash)],
                      result |-> "StoredCanonical" ]

\* StoreBatch, StoreExecutedBatch, OnBatchExecuted and the parent hash update
storeExecuted(st, batch, fail) ==
    LET seqNo == batch.Header.SequencerNo
    IN IF fail = "store" THEN [st |-> logOp(st, "StoreBatch", seqNo, "error"), result |-> "error"]
       ELSE LET st1 == [logOp(st, "StoreBatch", seqNo, "ok")
                           EXCEPT !.batches = StoreBatch(st.batches, batch)]
            IN IF fail = "storeExecuted"
               THEN [ st |-> logOp(st1, "StoreExecutedBatch", seqNo, "error"),
                      result |-> "error" ]
               ELSE LET st2 == logOp(logOp(st1, "StoreExecutedBatch", seqNo, "ok"),
                                     "OnBatchExecuted", seqNo, "ok")
                    IN [ st |-> [st2 EXCEPT !.executed = st1.executed \cup {Hash(batch.Header)},
                                            !.registry = Append(st1.registry, Hash(batch.Header)),
                                            !.parentHash =
                                                parentAfterExecuted(batch, st1.parentHash)],
                         result |-> "StoredCanonical" ]

\* the genesis batch is created by the executor, which commits its state
stepGenesis(st, calldataRollupHeader, incomplete, fail) ==
    LET genBatch == CreateGenesisState(incomplete.l1Proof, incomplete.time,
                                       calldataRollupHeader.Coinbase,
                                       calldataRollupHeader.BaseFee)
        st1 == [st EXCEPT !.execLog = st.execLog \cup
                    {[op |-> "genesis", seqNo |-> incomplete.seqNo, parent |-> ZeroHash]}]
    IN IF fail = "exec"
       THEN [ st |-> logOp(st1, "CreateGenesisState", incomplete.seqNo, "error"),
              result |-> "error" ]
       ELSE storeExecuted([logOp(st1, "CreateGenesisState", incomplete.seqNo, "ok")
                              EXCEPT !.committed = st1.committed \cup {Hash(genBatch.Header)}],
                          genBatch, fail)

\* an error of the executor is passed over and the loop goes on
stepDefaultContinue(st, incomplete, fail) ==
    LET ctx == computeBatchContext(incomplete, st.parentHash)
        computed == executorComputeBatch(st.batches, ctx)
        st1 == [st EXCEPT !.execLog = st.execLog \cup
                    {[op |-> "compute", seqNo |-> ctx.SequencerNo, parent |-> ctx.ParentPtr]}]
    IN IF fail = "exec" \/ computed.err # ""
       THEN [st |-> logOp(st1, "ComputeBatch", ctx.SequencerNo, "error"), result |-> "Skipped"]
       ELSE LET computedBatch == computed.val
                st2 == logOp(st1, "ComputeBatch", ctx.SequencerNo, "ok")
            IN IF fail = "commit"
               THEN [st |-> logOp(st2, "Commit", ctx.SequencerNo, "error"), result |-> "error"]
               ELSE storeExecuted(
                        [logOp(st2, "Commit", ctx.SequencerNo, "ok")
                            EXCEPT !.committed = st2.committed \cup {Hash(computedBatch.Header)}],
                        computedBatch, fail)

\* every other batch is computed on top of the running parent hash
stepDefault(st, incomplete, fail) ==
    LET ctx == computeBatchContext(incomplete, st.parentHash)
        computed == executorComputeBatch(st.batches, ctx)
        st1 == [st EXCEPT !.execLog = st.execLog \cup
                    {[op |-> "compute", seqNo |-> ctx.SequencerNo, parent |-> ctx.ParentPtr]}]
    IN IF fail = "exec" \/ computed.err # ""
       THEN [st |-> logOp(st1, "ComputeBatch", ctx.SequencerNo, "error"), result |-> "error"]
       ELSE LET computedBatch == computed.val
                st2 == logOp(st1, "ComputeBatch", ctx.SequencerNo, "ok")
            IN IF fail = "commit"
               THEN [st |-> logOp(st2, "Commit", ctx.SequencerNo, "error"), result |-> "error"]
               ELSE storeExecuted(
                        [logOp(st2, "Commit", ctx.SequencerNo, "ok")
                            EXCEPT !.committed = st2.committed \cup {Hash(computedBatch.Header)}],
                        computedBatch, fail)

\* the collaborator calls that can fail in the iteration for this batch
failures(st, incomplete) ==
    IF FetchBatchBySeqNo(st.batches, U64(incomplete.seqNo)) # {} THEN {"none", "fetch"}
    ELSE IF incomplete.header # <<>> THEN {"none", "fetch", "store"}
    ELSE IF U64(incomplete.seqNo) = L2GenesisSeqNo
         THEN {"none", "fetch", "exec", "store", "storeExecuted"}
    ELSE {"none", "fetch", "exec", "commit", "store", "storeExecuted"}

\* the look-up that opens every iteration, logged
lookedUp(st, incomplete, fail) ==
    logOp(st, "FetchBatchBySeqNo", U64(incomplete.seqNo),
          IF fail = "fetch" THEN "error"
          ELSE IF FetchBatchBySeqNo(st.batches, U64(incomplete.seqNo)) # {} THEN "found"
          ELSE "not found")

\* after a reorg batch is stored the iteration goes on to execute it
executeAndSaveStepFallThrough(st, calldataRollupHeader, incomplete, fail) ==
    LET found == FetchBatchBySeqNo(st.batches, U64(incomplete.seqNo))
        st0 == lookedUp(st, incomplete, fail)
        reorg == stepReorg(st0, incomplete, fail)
    IN IF fail = "fetch" THEN [st |-> st0, result |-> "error"]
       ELSE IF found # {} THEN stepStored(st0, incomplete, CHOOSE b \in found : TRUE)
       ELSE IF incomplete.header # <<>> /\ reorg.result = "error" THEN reorg
       ELSE IF U64(incomplete.seqNo) = L2GenesisSeqNo
            THEN stepGenesis(IF incomplete.header # <<>> THEN reorg.st ELSE st0,
                             calldataRollupHeader, incomplete, "none")
       ELSE stepDefault(IF incomplete.header # <<>> THEN reorg.st ELSE st0, incomplete,
                        IF incomplete.header # <<>> THEN "none" ELSE fail)

\* a reorg batch is stored again although the store has its sequence number
executeAndSaveStepReorgFirst(st, calldataRollupHeader, incomplete, fail) ==
    LET found == FetchBatchBySeqNo(st.batches, U64(incomplete.seqNo))
        st0 == lookedUp(st, incomplete, fail)
    IN IF fail = "fetch" THEN [st |-> st0, result |-> "error"]
       ELSE IF incomplete.header # <<>> THEN stepReorg(st0, incomplete, fail)
       ELSE IF found # {} THEN stepStored(st0, incomplete, CHOOSE b \in found : TRUE)
       ELSE IF U64(incomplete.seqNo) = L2GenesisSeqNo
            THEN stepGenesis(st0, calldataRollupHeader, incomplete, fail)
       ELSE stepDefault(st0, incomplete, fail)

\* the body of "for _, incompleteBatch := range incompleteBatches"
executeAndSaveStep(st, calldataRollupHeader, incomplete, fail) ==
    LET found == FetchBatchBySeqNo(st.batches, U64(incomplete.seqNo))
        st0 == lookedUp(st, incomplete, fail)
    IN IF fail = "fetch" THEN [st |-> st0, result |-> "error"]
       ELSE IF found # {} THEN stepStored(st0, incomplete, CHOOSE b \in found : TRUE)
       ELSE IF incomplete.header # <<>> THEN stepReorg(st0, incomplete, fail)
       ELSE IF U64(incomplete.seqNo) = L2GenesisSeqNo
            THEN stepGenesis(st0, calldataRollupHeader, incomplete, fail)
       ELSE stepDefault(st0, incomplete, fail)

\* ------------------------------------------------------------------ state
Nodes == {1, 2}

VARIABLES
    history,     \* the sequencer's batches, by position
    rollup,      \* the core.Rollup the sequencer compresses
    ext,         \* <<>> or <<the ExtRollup built by CreateExtRollup>>
    blockStore,  \* per node: the L1 blocks of its block store
    node,        \* per node: batches, executed, committed, registry, parentHash, execLog
    pc,          \* per node: "idle", "loop", "done", "failed" or "crashed"
    idx,         \* per node: the rollup index the loop is at (1-based)
    header,      \* per node: <<>> or <<the decoded CalldataRollupHeader>>
    incomplete,  \* per node: the records built by createIncompleteBatches
    trace,       \* per node: for the current call, what each iteration did
    snaps,       \* per node: the node as it was at each successful return
    okBefore,    \* per node: successful returns before the current call
    calldata,    \* <<>> or <<the CalldataRollupHeader as createRollupHeader built it>>
    forged,      \* "none" or what was done to the ExtRollup on its way to the nodes
    err,         \* per node: the error the current call returned ("": none)
    before,      \* per node: the node as it was when the current call started
                 \* (but for parentHash, which is local to a call)
    stopNodeInterrupt,  \* 1 once the host was told to stop, 0 before
    interrupts,         \* the host's round flags, in the order they were made
    roundInterrupt,     \* the flag the host's main loop holds (an index of interrupts)
    callbacks,          \* per round flag: where the callback scheduled with it is
    elapsedWith,        \* per round flag: its value when the delay of its callback elapsed
    published,          \* the round flags whose callbacks published a rollup, in order
    hostState           \* "running", "exited" (the main loop returned) or "panicked"

\* the variables of the host's main loop and of its callbacks
hostVars == <<interrupts, roundInterrupt, callbacks, elapsedWith, published, hostState>>

\* the variables of the enclave side
enclaveVars == <<history, rollup, ext, blockStore, node, pc, idx, header, incomplete, trace,
                 snaps, okBefore, calldata, forged, err, before>>

vars == <<history, rollup, ext, blockStore, node, pc, idx, header, incomplete, trace,
          snaps, okBefore, calldata, forged, err, before, stopNodeInterrupt, hostVars>>

\* the number of L1 blocks and forks the host's main loop handles
MaxRounds == 3

\* Node.startProcessing before the main loop: "i := int32(0); roundInterrupt := &i"
HostInit ==
    /\ interrupts = <<0>>
    /\ roundInterrupt = 1
    /\ callbacks = <<"none">>
    /\ elapsedWith = <<0>>
    /\ published = <<>>
    /\ hostState = "running"

\* the position of history h parent to position k (0 for the first)
ParentPos(h, k) ==
    IF k = 1 THEN 0
    ELSE CHOOSE j \in 1..(k - 1) : Hash(h[j].Header) = h[k].Header.ParentHash

\* a node's store holds batches of the history together with their ancestors,
\* none of them later than the last batch of the rollup r
StoreChoices(h, r) ==
    {S \in SUBSET Positions :
        \A k \in S :
            /\ k > 1 => ParentPos(h, k) \in S
            /\ SeqOf(k) <= r.Batches[Len(r.Batches)].Header.SequencerNo}

\* the tips of the L1 chain
L1Tips == {b \in L1Blocks : ~ \E c \in L1Blocks : c.parent = b.hash}

\* the L1 head at which the rollup is built: a tip at or above every proof of
\* the rollup that descends from the proofs of its canonical batches
HeadChoices(h, lo, hi) ==
    {b.hash : b \in {c \in L1Tips :
        \A k \in lo..hi :
            /\ BlockOf(h[k].Header.L1Proof).number <= c.number
            /\ k \in CanonicalPositions(h) => IsL1Ancestor(h[k].Header.L1Proof, c.hash)}}

MkRollup(h, lo, hi, head) ==
    [ Batches |-> [i \in 1..(hi - lo + 1) |-> h[lo + i - 1]],
      Blocks |-> [x \in {h[k].Header.L1Proof : k \in lo..hi} |-> BlockOf(x)],
      Header |-> [CompressionL1Head |-> head] ]

Rollups(h) ==
    UNION { UNION { { MkRollup(h, lo, hi, head) : head \in HeadChoices(h, lo, hi) }
                    : hi \in lo..MaxBatches }
            : lo \in Positions }

NodeWith(h, S) ==
    [ batches |-> {h[k] : k \in S},
      executed |-> {Hash(h[k].Header) : k \in S},
      committed |-> {Hash(h[k].Header) : k \in S},
      registry |-> <<>>,
      parentHash |-> ZeroHash,
      execLog |-> {},
      ops |-> <<>> ]

\* the block store of a receiving node: all the L1 blocks, the tips alone (the
\* blocks below them pruned), or the blocks below the tips (the tips not yet seen)
BlockStoreChoices == {L1Blocks, L1Tips, L1Blocks \ L1Tips}

InitCommon ==
    /\ history \in Histories
    /\ rollup \in Rollups(history)
    /\ ext = <<>>
    /\ forged = "none"
    /\ err = [n \in Nodes |-> ""]
    /\ pc = [n \in Nodes |-> "idle"]
    /\ idx = [n \in Nodes |-> 0]
    /\ header = [n \in Nodes |-> <<>>]
    /\ incomplete = [n \in Nodes |-> <<>>]
    /\ trace = [n \in Nodes |-> <<>>]
    /\ snaps = [n \in Nodes |-> <<>>]
    /\ okBefore = [n \in Nodes |-> 0]
    /\ calldata = <<>>
    /\ stopNodeInterrupt = 0
    /\ HostInit

Init ==
    /\ InitCommon
    /\ \E B \in BlockStoreChoices : blockStore = [n \in Nodes |-> B]
    /\ \E S \in StoreChoices(history, rollup) :
          node = [n \in Nodes |-> IF n = 1 THEN NodeWith(history, S) ELSE NodeWith(history, {})]
    /\ before = node

\* ------------------------------------------------------------------ actions
\* the sequencer compresses the rollup
DoCreateExtRollup ==
    /\ ext = <<>>
    /\ ext' = <<CreateExtRollup(rollup, history)>>
    /\ calldata' = <<createRollupHeader(rollup, history)>>
    /\ UNCHANGED <<history, rollup, blockStore, node, pc, idx, header, incomplete, trace,
                   snaps, okBefore, forged, err, before, stopNodeInterrupt, hostVars>>

\* What can happen to the ExtRollup between the sequencer and the nodes:
\*   payloads, header  the blob was altered by someone without the key
\*   compression       the header blob seals bytes that are no compressed stream
\*   encoding          the payload blob seals bytes that are no rlp encoding
\*   timeDelta         the header was sealed with time_deltas[1] = -1
\*   l1Delta           the header was sealed with l1_height_deltas[1] = -3
\*   l1Height          the header was sealed with l1_height_deltas[0] = -1
\*   lowHead           the rollup header names the first L1 block as its head
ForgeKinds ==
    { "payloads", "header", "compression", "encoding", "timeDelta",
      "fewerTransactions", "moreTransactions", "emptyReorgs",
      "l1Delta", "l1Height", "lowHead" }

\* the first block of the L1 chain
L1Genesis == CHOOSE b \in L1Blocks : b.number = 0

\* s without its last element
Front(s) == SubSeq(s, 1, Len(s) - 1)

Forged(r, calldataRollupHeader, kind) ==
    IF kind = "payloads" THEN [r EXCEPT !.BatchPayloads = <<"tampered", r.BatchPayloads>>]
    ELSE IF kind = "header"
         THEN [r EXCEPT !.CalldataRollupHeader = <<"tampered", r.CalldataRollupHeader>>]
    ELSE IF kind = "compression"
         THEN [r EXCEPT !.CalldataRollupHeader = Encrypt(<<"noise">>)]
    ELSE IF kind = "encoding"
         THEN [r EXCEPT !.BatchPayloads = Encrypt(CompressRollup(<<"noise">>))]
    ELSE IF kind = "fewerTransactions"
         THEN [r EXCEPT !.BatchPayloads =
                   serialiseCompressAndEncrypt("transactions",
                       Front(decryptDecompressAndDeserialise("transactions",
                                                             r.BatchPayloads).val))]
    ELSE IF kind = "emptyReorgs"
         THEN [r EXCEPT !.CalldataRollupHeader =
                   serialiseCompressAndEncrypt("header",
                       [calldataRollupHeader EXCEPT
                           !.ReOrgs = Slice([i \in 1..Len(calldataRollupHeader.BatchTimeDeltas)
                                                |-> <<>>])])]
    ELSE IF kind = "l1Delta"
         THEN [r EXCEPT !.CalldataRollupHeader =
                   serialiseCompressAndEncrypt("header",
                       [calldataRollupHeader EXCEPT !.L1HeightDeltas[2] = GobEncode(0 - 3)])]
    ELSE IF kind = "l1Height"
         THEN [r EXCEPT !.CalldataRollupHeader =
                   serialiseCompressAndEncrypt("header",
                       [calldataRollupHeader EXCEPT !.L1HeightDeltas[1] = GobEncode(0 - 1)])]
    ELSE IF kind = "lowHead"
         THEN [r EXCEPT !.Header.CompressionL1Head = L1Genesis.hash]
    ELSE IF kind = "moreTransactions"
         THEN [r EXCEPT !.BatchPayloads =
                   serialiseCompressAndEncrypt("transactions",
                       Append(decryptDecompressAndDeserialise("transactions",
                                                              r.BatchPayloads).val, <<>>))]
    ELSE [r EXCEPT !.CalldataRollupHeader =
              Encrypt(CompressRollup(RlpEncodeCalldataHeader(
                  [calldataRollupHeader EXCEPT !.BatchTimeDeltas[2] = GobEncode(0 - 1)])))]

Forge ==
    /\ ext # <<>>
    /\ forged = "none"
    /\ \A n \in Nodes : pc[n] = "idle"
    /\ \E kind \in ForgeKinds :
          /\ kind = "timeDelta" => Len(calldata[1].BatchTimeDeltas) >= 2
          /\ kind = "emptyReorgs" => calldata[1].ReOrgs.isNil
          /\ kind = "l1Delta" => Len(calldata[1].L1HeightDeltas) >= 2
          /\ ext' = <<Forged(ext[1], calldata[1], kind)>>
          /\ forged' = kind
    /\ UNCHANGED <<history, rollup, blockStore, node, pc, idx, header, incomplete, trace,
                   snaps, okBefore, calldata, err, before, stopNodeInterrupt, hostVars>>

\* decryptDecompressAndDeserialise of the two blobs
openTransactions(r) == decryptDecompressAndDeserialise("transactions", r.BatchPayloads)

openCalldataHeader(r) == decryptDecompressAndDeserialise("header", r.CalldataRollupHeader)

\* the loop starts from the zero hash
initialParentHashZero(calldataRollupHeader) == ZeroHash

\* "parentHash := calldataRollupHeader.FirstCanonParentHash"
initialParentHash(calldataRollupHeader) == calldataRollupHeader.FirstCanonParentHash

anchorMissingUnchecked(calldataRollupHeader, batches) == FALSE

\* the anchor is looked up for a rollup that starts at genesis too
anchorMissingAlsoAtGenesis(calldataRollupHeader, batches) ==
    FetchBatch(batches, calldataRollupHeader.FirstCanonParentHash) = {}

\* the check made before the loop of executeAndSaveIncompleteBatches
anchorMissing(calldataRollupHeader, batches) ==
    /\ U64(calldataRollupHeader.FirstBatchSequence) # L2GenesisSeqNo
    /\ FetchBatch(batches, calldataRollupHeader.FirstCanonParentHash) = {}

\* the ways the process ends without ProcessExtRollup returning: a runtime
\* panic, and logger.Crit, which logs and exits
CrashErrors == {"panic: index out of range", "crit: negative height"}

\* ProcessExtRollup up to the loop of executeAndSaveIncompleteBatches: open the
\* blobs, build the incomplete batches, look up the anchor. header is <<>> when
\* the call fails before the header is decoded.
prepareExtRollup(r, batches, blocks) ==
    LET transactionsPerBatch == openTransactions(r)
        calldataRollupHeader == openCalldataHeader(r)
        incompleteBatches ==
            createIncompleteBatches(calldataRollupHeader.val, transactionsPerBatch.val,
                                    r.Header.CompressionL1Head, blocks)
    IN IF transactionsPerBatch.err # ""
       THEN [err |-> transactionsPerBatch.err, header |-> <<>>, incomplete |-> <<>>]
       ELSE IF calldataRollupHeader.err # ""
            THEN [err |-> calldataRollupHeader.err, header |-> <<>>, incomplete |-> <<>>]
       ELSE IF incompleteBatches.err # ""
            THEN [ err |-> incompleteBatches.err, header |-> <<calldataRollupHeader.val>>,
                   incomplete |-> <<>> ]
       ELSE IF anchorMissing(calldataRollupHeader.val, batches)
            THEN [ err |-> "batch not found", header |-> <<calldataRollupHeader.val>>,
                   incomplete |-> <<>> ]
       ELSE [ err |-> "", header |-> <<calldataRollupHeader.val>>,
              incomplete |-> incompleteBatches.val ]

\* the host hands the ExtRollup to the enclave, which it does not do once it
\* was told to stop
ProcessStart(n) ==
    /\ stopNodeInterrupt = 0
    /\ pc[n] \in {"idle", "done", "failed"}
    /\ Len(snaps[n]) < MaxCalls
    /\ ext # <<>>
    /\ LET res == prepareExtRollup(ext[1], node[n].batches, blockStore[n])
       IN /\ pc' = [pc EXCEPT ![n] = IF res.err = "" THEN "loop"
                                     ELSE IF res.err \in CrashErrors THEN "crashed"
                                     ELSE "failed"]
          /\ err' = [err EXCEPT ![n] = res.err]
          /\ header' = [header EXCEPT ![n] = res.header]
          /\ incomplete' = [incomplete EXCEPT ![n] = res.incomplete]
          /\ idx' = [idx EXCEPT ![n] = 1]
          /\ node' = [node EXCEPT ![n].parentHash =
                                      IF res.header = <<>> THEN node[n].parentHash
                                      ELSE initialParentHash(res.header[1]),
                                  ![n].ops = <<>>]
    /\ before' = [before EXCEPT ![n] = [node[n] EXCEPT !.parentHash = ZeroHash, !.ops = <<>>]]
    /\ trace' = [trace EXCEPT ![n] = <<>>]
    /\ okBefore' = [okBefore EXCEPT ![n] = Len(snaps[n])]
    /\ UNCHANGED <<history, rollup, ext, blockStore, snaps, calldata, forged,
                   stopNodeInterrupt, hostVars>>

\* the error an iteration returns: that of the collaborator call that failed
\* (with no failure injected the only error is the executor's)
errorOf(fail) ==
    IF fail = "fetch" THEN "store: fetch failed"
    ELSE IF fail = "commit" THEN "cannot commit stateDB for incoming valid batch"
    ELSE IF fail = "store" THEN "store: StoreBatch failed"
    ELSE IF fail = "storeExecuted" THEN "store: StoreExecutedBatch failed"
    ELSE "executor error"

\* one iteration of the loop
ProcessBatch(n) ==
    /\ pc[n] = "loop"
    /\ idx[n] <= Len(incomplete[n])
    /\ \E fail \in failures(node[n], incomplete[n][idx[n]]) :
          LET r == executeAndSaveStep(node[n], header[n][1], incomplete[n][idx[n]], fail)
          IN /\ node' = [node EXCEPT ![n] = r.st]
             /\ pc' = [pc EXCEPT ![n] = IF r.result = "error" THEN "failed" ELSE "loop"]
             /\ err' = [err EXCEPT ![n] = IF r.result = "error" THEN errorOf(fail) ELSE ""]
             /\ idx' = [idx EXCEPT ![n] = IF r.result = "error" THEN idx[n] ELSE idx[n] + 1]
             /\ trace' = [trace EXCEPT ![n] =
                            Append(trace[n], [ result |-> r.result, fail |-> fail,
                                               parentIn |-> node[n].parentHash,
                                               parentOut |-> r.st.parentHash ])]
    /\ UNCHANGED <<history, rollup, ext, blockStore, header, incomplete, snaps,
                   okBefore, calldata, forged, before, stopNodeInterrupt, hostVars>>

\* the loop is over: ProcessExtRollup returns the header
ProcessReturn(n) ==
    /\ pc[n] = "loop"
    /\ idx[n] > Len(incomplete[n])
    /\ pc' = [pc EXCEPT ![n] = "done"]
    /\ snaps' = [snaps EXCEPT ![n] = Append(snaps[n], node[n])]
    /\ UNCHANGED <<history, rollup, ext, blockStore, node, idx, header, incomplete, trace,
                   okBefore, calldata, forged, err, before, stopNodeInterrupt, hostVars>>

Next ==
    \/ DoCreateExtRollup
    \/ Forge
    \/ ProcessStart(1)
    \/ ProcessBatch(1)
    \/ ProcessReturn(1)

Spec == Init /\ [][Next]_vars

\* Node.Stop of the host: "block all requests". The flag is the host's; no
\* code of RollupCompression reads it.
Stop ==
    /\ stopNodeInterrupt = 0
    /\ stopNodeInterrupt' = 1
    /\ UNCHANGED <<enclaveVars, hostVars>>

NextShutdown == Next \/ Stop

\* the host may be told to stop at any moment, also while a rollup is processed
SpecShutdown == Init /\ [][NextShutdown]_vars

\* Two nodes with the same block store and stores of their own process the same
\* ExtRollup, each once; the nodes share nothing, so the second runs after the
\* first has returned.
InitTwoNodes ==
    /\ InitCommon
    /\ blockStore = [n \in Nodes |-> L1Blocks]
    /\ \E S1, S2 \in StoreChoices(history, rollup) :
          node = [n \in Nodes |-> IF n = 1 THEN NodeWith(history, S1) ELSE NodeWith(history, S2)]
    /\ before = node

NextTwoNodes ==
    \/ DoCreateExtRollup
    \/ (pc[1] = "idle" /\ ProcessStart(1))
    \/ ProcessBatch(1)
    \/ ProcessReturn(1)
    \/ (pc[1] = "done" /\ pc[2] = "idle" /\ ProcessStart(2))
    \/ ProcessBatch(2)
    \/ ProcessReturn(2)

SpecTwoNodes == InitTwoNodes /\ [][NextTwoNodes]_vars

\* ------------------------------------------------------------------ host
\* triggerInterrupt: the flag handed in is set, a new flag is returned
triggerInterrupt(flags, interrupt) ==
    [ interrupts |-> Append([flags EXCEPT ![interrupt] = 1], 0),
      interrupt |-> Len(flags) + 1 ]

\* One turn of the main loop of Node.startProcessing for an L1 block or a fork:
\* triggerInterrupt, then processBlocks with the new flag. The enclave ingests
\* the last block or not, and produces a rollup or not; with a rollup produced
\* ScheduleInterrupt starts the ticker of the round-winner callback.
HandleBlocks ==
    /\ hostState = "running"
    /\ Len(interrupts) <= MaxRounds
    /\ \E IngestedBlock \in BOOLEAN, ProducedRollup \in BOOLEAN :
          LET t == triggerInterrupt(interrupts, roundInterrupt)
          IN /\ interrupts' = t.interrupts
             /\ roundInterrupt' = t.interrupt
             /\ callbacks' = Append(callbacks,
                                    IF IngestedBlock /\ ProducedRollup THEN "waiting"
                                    ELSE "none")
             /\ elapsedWith' = Append(elapsedWith, 0)
    /\ UNCHANGED <<enclaveVars, stopNodeInterrupt, published, hostState>>

\* ScheduleInterrupt, "<-ticker.C": the delay of the callback of flag f is over
TickerFires(f) ==
    /\ hostState # "panicked"
    /\ callbacks[f] = "waiting"
    /\ callbacks' = [callbacks EXCEPT ![f] = "elapsed"]
    /\ elapsedWith' = [elapsedWith EXCEPT ![f] = interrupts[f]]
    /\ UNCHANGED <<enclaveVars, stopNodeInterrupt, interrupts, roundInterrupt, published,
                   hostState>>

\* ScheduleInterrupt, "if atomic.LoadInt32(interrupt) == 1 { return }; fun()"
LoadInterrupt(f) ==
    /\ hostState # "panicked"
    /\ callbacks[f] = "elapsed"
    /\ callbacks' = [callbacks EXCEPT ![f] = IF interrupts[f] = 1 THEN "interrupted"
                                             ELSE "running"]
    /\ UNCHANGED <<enclaveVars, stopNodeInterrupt, interrupts, roundInterrupt, elapsedWith,
                   published, hostState>>

\* handleRoundWinner, "if atomic.LoadInt32(a.stopNodeInterrupt) == 1 { return }"
LoadStop(f) ==
    /\ hostState # "panicked"
    /\ callbacks[f] = "running"
    /\ callbacks' = [callbacks EXCEPT ![f] = IF stopNodeInterrupt = 1 THEN "stopped"
                                             ELSE "asking"]
    /\ UNCHANGED <<enclaveVars, stopNodeInterrupt, interrupts, roundInterrupt, elapsedWith,
                   published, hostState>>

\* handleRoundWinner, EnclaveClient.RoundWinner: the node has won the round or
\* not, or the call fails and log.Panic ends the process
RoundWinner(f) ==
    /\ hostState # "panicked"
    /\ callbacks[f] = "asking"
    /\ \E outcome \in {"publishing", "notWinner", "panicked"} :
          /\ callbacks' = [callbacks EXCEPT ![f] = outcome]
          /\ hostState' = IF outcome = "panicked" THEN "panicked" ELSE hostState
    /\ UNCHANGED <<enclaveVars, stopNodeInterrupt, interrupts, roundInterrupt, elapsedWith,
                   published>>

\* handleRoundWinner, "a.broadcastTx(a.mgmtContractLib.CreateRollup(...))"
Publish(f) ==
    /\ hostState # "panicked"
    /\ callbacks[f] = "publishing"
    /\ callbacks' = [callbacks EXCEPT ![f] = "published"]
    /\ published' = Append(published, f)
    /\ UNCHANGED <<enclaveVars, stopNodeInterrupt, interrupts, roundInterrupt, elapsedWith,
                   hostState>>

\* Node.Stop, "a.exitNodeCh <- true", and the main loop's "case <-a.exitNodeCh: return"
ExitNode ==
    /\ hostState = "running"
    /\ stopNodeInterrupt = 1
    /\ hostState' = "exited"
    /\ UNCHANGED <<enclaveVars, stopNodeInterrupt, interrupts, roundInterrupt, callbacks,
                   elapsedWith, published>>

\* the host alone: the enclave side is left as it starts
InitHost ==
    /\ Init
    /\ history = CHOOSE h \in Histories : TRUE
    /\ rollup = CHOOSE r \in Rollups(history) : TRUE
    /\ blockStore = [n \in Nodes |-> L1Blocks]
    /\ node = [n \in Nodes |-> NodeWith(history, {})]

NextHost ==
    \/ HandleBlocks
    \/ \E f \in 1..Len(interrupts) : TickerFires(f)
    \/ \E f \in 1..Len(interrupts) : LoadInterrupt(f)
    \/ \E f \in 1..Len(interrupts) : LoadStop(f)
    \/ \E f \in 1..Len(interrupts) : RoundWinner(f)
    \/ \E f \in 1..Len(interrupts) : Publish(f)
    \/ (hostState # "panicked" /\ Stop)
    \/ ExitNode

\* the main loop, the callbacks it schedules and Node.Stop run side by side
SpecHost == InitHost /\ [][NextHost]_vars

\* ------------------------------------------------------------------ claims
RollupLen == Len(rollup.Batches)

HasSeq(n, seq) == FetchBatchBySeqNo(node[n].batches, seq) # {}

StoredHeader(n, seq) == (CHOOSE b \in FetchBatchBySeqNo(node[n].batches, seq) : TRUE).Header

\* the rollup indices the decoded header marks canonical (no reorg header carried)
CanonIdx(n) == {i \in 1..Len(incomplete[n]) : incomplete[n][i].header = <<>>}

IdxSeq(n, i) == U64(incomplete[n][i].seqNo)

ConsecutiveCanon(n, i, j) ==
    /\ i \in CanonIdx(n) /\ j \in CanonIdx(n) /\ i < j
    /\ \A k \in CanonIdx(n) : ~ (i < k /\ k < j)

\* the block map is consistent with the batches: every L1 proof is the head or
\* an ancestor of it, and in the block store of the node
ConsistentBlockMap(n) ==
    \A i \in 1..RollupLen :
        /\ IsL1Ancestor(rollup.Batches[i].Header.L1Proof, rollup.Header.CompressionL1Head)
        /\ rollup.Blocks[rollup.Batches[i].Header.L1Proof] \in blockStore[n]

\* C1: round trip. When ProcessExtRollup of CreateExtRollup(B, M) has returned
\* without error, M being consistent with B, the store holds for every batch of
\* B a batch with the same header.
C1_RoundTrip ==
    (pc[1] = "done" /\ forged = "none" /\ ConsistentBlockMap(1)) =>
        \A i \in 1..RollupLen :
            \E b \in node[1].batches : b.Header = rollup.Batches[i].Header

\* a full rollup with a reorg batch, a later time that is smaller, and batches
\* executed and stored in this call
C1_Witness ==
    /\ pc[1] = "done" /\ forged = "none" /\ ConsistentBlockMap(1) /\ RollupLen = MaxBatches
    /\ \E k \in 1..Len(trace[1]) : trace[1][k].result = "StoredCanonical"
    /\ \E k \in 1..Len(trace[1]) : trace[1][k].result = "StoredReorg"
    /\ \E i \in 2..RollupLen : rollup.Batches[i].Header.Time < rollup.Batches[i - 1].Header.Time

\* C2: parent linkage. After a successful ProcessExtRollup, of two consecutive
\* canonical batches of the rollup the later one is stored with the hash of the
\* stored header of the earlier one as parent hash.
C2_ParentLinkage ==
    pc[1] = "done" =>
        \A i, j \in 1..Len(incomplete[1]) :
            ConsecutiveCanon(1, i, j) =>
                StoredHeader(1, IdxSeq(1, j)).ParentHash = Hash(StoredHeader(1, IdxSeq(1, i)))

\* the earlier batch was skipped, the later one executed
C2_Witness ==
    /\ pc[1] = "done"
    /\ \E i, j \in 1..Len(trace[1]) :
          /\ ConsecutiveCanon(1, i, j)
          /\ trace[1][i].result = "Skipped"
          /\ trace[1][j].result = "StoredCanonical"

\* the canonical indices below k
CanonBefore(n, k) == {i \in CanonIdx(n) : i < k}

LastCanonBefore(n, k) == CHOOSE i \in CanonBefore(n, k) : \A j \in CanonBefore(n, k) : j <= i

\* C3: an iteration for a reorg batch leaves the running parent hash as it was,
\* whether the batch was stored or was found in the store; a canonical batch
\* executed right after reorg batches is computed on the hash of the last
\* canonical batch before them and never on the hash of a reorg header.
C3_ReorgKeepsParent ==
    \A k \in 1..Len(trace[1]) :
        /\ incomplete[1][k].header # <<>> => trace[1][k].parentOut = trace[1][k].parentIn
        /\ ( /\ trace[1][k].result = "StoredCanonical"
             /\ k > 1
             /\ incomplete[1][k - 1].header # <<>>
             /\ CanonBefore(1, k) # {} ) =>
                /\ trace[1][k].parentIn = Hash(StoredHeader(1, IdxSeq(1, LastCanonBefore(1, k))))
                /\ \A r \in 1..(k - 1) :
                      incomplete[1][r].header # <<>> =>
                          trace[1][k].parentIn # Hash(incomplete[1][r].header[1])
                /\ \A e \in node[1].execLog :
                      e.seqNo = incomplete[1][k].seqNo => e.parent = trace[1][k].parentIn

\* canonical, reorg stored in this call, canonical executed in this call
C3_Witness ==
    \E k \in 3..Len(trace[1]) :
        /\ trace[1][k].result = "StoredCanonical"
        /\ trace[1][k - 1].result = "StoredReorg"
        /\ CanonBefore(1, k) # {}

SameStore(a, b) ==
    /\ a.batches = b.batches
    /\ a.executed = b.executed
    /\ a.committed = b.committed
    /\ a.registry = b.registry
    /\ a.execLog = b.execLog

\* C4: idempotence. In a call made after a successful one every iteration takes
\* the already-stored path, the call can fail on a failing store lookup only,
\* the executor and the registry are not called and the store stays as the
\* first successful call left it.
C4_Idempotent ==
    okBefore[1] >= 1 =>
        /\ \A k \in 1..Len(trace[1]) :
              trace[1][k].result = "Skipped" \/ trace[1][k].fail = "fetch"
        /\ pc[1] = "failed" =>
              (Len(trace[1]) > 0 /\ trace[1][Len(trace[1])].fail = "fetch")
        /\ SameStore(node[1], snaps[1][1])

\* the second call is over; the first one executed a batch and stored a reorg
C4_Witness ==
    /\ okBefore[1] >= 1 /\ pc[1] = "done"
    /\ snaps[1][1].execLog # {}
    /\ \E k \in 1..Len(trace[1]) : incomplete[1][k].header # <<>>
    /\ \E k \in 1..Len(trace[1]) : incomplete[1][k].header = <<>>

\* C5: at every moment, whatever calls succeeded or failed, every stored batch
\* that the executor computed has its parent batch in the store; and what makes
\* it so: the executor is only ever asked to compute on a parent that is stored.
C5_ConsistentChain ==
    /\ \A b \in node[1].batches :
          ( /\ Hash(b.Header) \in node[1].committed
            /\ b.Header.SequencerNo # L2GenesisSeqNo ) =>
              FetchBatch(node[1].batches, b.Header.ParentHash) # {}
    /\ \A e \in node[1].execLog :
          e.op = "compute" => FetchBatch(node[1].batches, e.parent) # {}

\* a call failed after it had executed and stored a batch
C5_Witness ==
    /\ pc[1] = "failed"
    /\ \E k \in 1..Len(trace[1]) :
          /\ trace[1][k].result = "StoredCanonical"
          /\ U64(incomplete[1][k].seqNo) # L2GenesisSeqNo

\* C6: determinism. Two nodes with the same block store that both processed the
\* same ExtRollup without error hold the same header for every batch of the
\* rollup, whatever their stores held before.
C6_Deterministic ==
    (pc[1] = "done" /\ pc[2] = "done" /\ blockStore[1] = blockStore[2]) =>
        \A i \in 1..Len(incomplete[1]) :
            StoredHeader(1, IdxSeq(1, i)) = StoredHeader(2, IdxSeq(2, i))

\* one node skipped a batch that the other one executed
C6_Witness ==
    /\ pc[1] = "done" /\ pc[2] = "done"
    /\ \E i \in 1..Len(trace[1]) :
          /\ trace[1][i].result = "Skipped"
          /\ trace[2][i].result = "StoredCanonical"
    /\ \E i \in 1..Len(trace[1]) :
          /\ trace[1][i].result = "StoredCanonical"
          /\ trace[2][i].result = "StoredCanonical"

\* C7: the height of the record of a canonical index k is the first canonical
\* height plus the number of canonical indices below k; a reorg index leaves
\* the counter where it was.
C7_Heights ==
    \A k \in 1..Len(incomplete[1]) :
        LET fch == header[1][1].FirstCanonBatchHeight
        IN IF k \in CanonIdx(1)
           THEN incomplete[1][k].height = fch + Cardinality(CanonBefore(1, k))
           ELSE incomplete[1][k].height =
                    IF k = 1 THEN fch - 1 ELSE incomplete[1][k - 1].height

\* canonical, reorg, canonical
C7_Witness ==
    /\ Len(incomplete[1]) >= 3
    /\ 1 \in CanonIdx(1) /\ 2 \notin CanonIdx(1) /\ 3 \in CanonIdx(1)
    /\ incomplete[1][2].height = incomplete[1][1].height
    /\ incomplete[1][3].height = incomplete[1][1].height + 1

\* C8: monotone heights. After a successful ProcessExtRollup the stored heights
\* of the canonical batches of the rollup increase strictly with the index.
C8_MonotoneHeights ==
    pc[1] = "done" =>
        \A i, j \in CanonIdx(1) :
            i < j => StoredHeader(1, IdxSeq(1, j)).Number > StoredHeader(1, IdxSeq(1, i)).Number

\* two canonical batches executed in this call
C8_Witness ==
    /\ pc[1] = "done"
    /\ \E i, j \in CanonIdx(1) :
          /\ i < j
          /\ trace[1][i].result = "StoredCanonical"
          /\ trace[1][j].result = "StoredCanonical"

NoReorgInRange ==
    FetchNonCanonicalBatchesBetween(history, rollup.Batches[1].Header.SequencerNo,
                                    rollup.Batches[RollupLen].Header.SequencerNo) = {}

\* C9: when the store lists no non-canonical batch in the range of the rollup,
\* the ReOrgs field of the header built is nil, not a list of empty entries.
C9_ReorgsAbsent ==
    (calldata # <<>> /\ NoReorgInRange) => calldata[1].ReOrgs = NilSlice

\* a header built for several batches, none of them re-orged
C9_Witness ==
    calldata # <<>> /\ NoReorgInRange /\ RollupLen >= 2

\* C10: the start time is the time of the first batch, the first time delta is
\* 0 and every later one is the signed difference to the time of the batch
\* before.
C10_TimeDeltas ==
    calldata # <<>> =>
        /\ calldata[1].StartTime = rollup.Batches[1].Header.Time
        /\ GobDecode(calldata[1].BatchTimeDeltas[1]) = 0
        /\ \A i \in 2..RollupLen :
              GobDecode(calldata[1].BatchTimeDeltas[i]) =
                  rollup.Batches[i].Header.Time - rollup.Batches[i - 1].Header.Time

\* a later batch with a smaller time
C10_Witness ==
    /\ calldata # <<>>
    /\ \E i \in 2..RollupLen :
          rollup.Batches[i].Header.Time < rollup.Batches[i - 1].Header.Time

\* the L1 height of the proof of the batch at index i, from the block map
ProofHeight(i) == rollup.Blocks[rollup.Batches[i].Header.L1Proof].number

\* C11: the first L1 height delta of the header built is the L1 height of the
\* proof of the first batch; every later one is the height of the proof of the
\* batch minus that of the batch before, negative when the height falls.
C11_L1HeightDeltas ==
    calldata # <<>> =>
        /\ GobDecode(calldata[1].L1HeightDeltas[1]) = ProofHeight(1)
        /\ \A i \in 2..RollupLen :
              GobDecode(calldata[1].L1HeightDeltas[i]) = ProofHeight(i) - ProofHeight(i - 1)

\* the first proof is above height 0 and a later proof is lower than the one before
C11_Witness ==
    /\ calldata # <<>>
    /\ ProofHeight(1) > 0
    /\ \E i \in 2..RollupLen : ProofHeight(i) < ProofHeight(i - 1)

\* C12: in the ExtRollup that CreateExtRollup produces there are as many
\* per-batch transaction lists, time deltas and L1 height deltas as the rollup
\* has batches, and a reorgs vector that is present has that length too.
C12_Lengths ==
    (ext # <<>> /\ forged = "none") =>
        LET transactionsPerBatch == openTransactions(ext[1])
            calldataRollupHeader == openCalldataHeader(ext[1])
        IN /\ transactionsPerBatch.err = "" /\ calldataRollupHeader.err = ""
           /\ Len(transactionsPerBatch.val) = RollupLen
           /\ Len(calldataRollupHeader.val.BatchTimeDeltas) = RollupLen
           /\ Len(calldataRollupHeader.val.L1HeightDeltas) = RollupLen
           /\ ~ calldataRollupHeader.val.ReOrgs.isNil =>
                  Len(calldataRollupHeader.val.ReOrgs.elems) = RollupLen
           /\ ~ calldata[1].ReOrgs.isNil => Len(calldata[1].ReOrgs.elems) = RollupLen

\* a rollup of several batches with a reorgs vector that has an empty entry and
\* a header
C12_Witness ==
    /\ ext # <<>> /\ forged = "none" /\ RollupLen >= 2
    /\ ~ calldata[1].ReOrgs.isNil
    /\ \E i, j \in 1..Len(calldata[1].ReOrgs.elems) :
          calldata[1].ReOrgs.elems[i] = <<>> /\ calldata[1].ReOrgs.elems[j] # <<>>

\* the rollup indices of the batches the sequencer's store lists as non-canonical
ReorgIdx ==
    {i \in 1..RollupLen :
        rollup.Batches[i] \in
            FetchNonCanonicalBatchesBetween(history, rollup.Batches[1].Header.SequencerNo,
                                            rollup.Batches[RollupLen].Header.SequencerNo)}

\* the index the first canonical height and parent hash are to come from
FirstCanon ==
    IF ReorgIdx = 1..RollupLen THEN 1
    ELSE CHOOSE i \in (1..RollupLen) \ ReorgIdx : \A j \in (1..RollupLen) \ ReorgIdx : i <= j

\* C13: the first canonical height and parent hash of the header built are the
\* height and the parent hash of the batch at the lowest index with an empty
\* reorgs entry, and those of the first batch when every batch is a reorg.
C13_FirstCanon ==
    calldata # <<>> =>
        /\ calldata[1].FirstCanonBatchHeight = rollup.Batches[FirstCanon].Header.Number
        /\ calldata[1].FirstCanonParentHash = rollup.Batches[FirstCanon].Header.ParentHash
        /\ ~ calldata[1].ReOrgs.isNil =>
              \A i \in 1..RollupLen : (calldata[1].ReOrgs.elems[i] = <<>>) <=> (i \notin ReorgIdx)

\* the first batch of the rollup is a reorg and a later one is canonical
C13_Witness ==
    /\ calldata # <<>>
    /\ 1 \in ReorgIdx
    /\ FirstCanon > 1
    /\ calldata[1].FirstCanonBatchHeight = rollup.Batches[FirstCanon].Header.Number

\* the per-batch transaction lists that CreateExtRollup seals
SealedTransactions == [i \in 1..RollupLen |-> rollup.Batches[i].Transactions]

ExecutorFailedAt(n, k) ==
    /\ k \in 1..Len(trace[n])
    /\ \/ trace[n][k].fail = "exec"
       \/ (trace[n][k].fail = "none" /\ trace[n][k].result = "error")

\* nothing was done for rollup index i in the current call: the store holds for
\* its sequence number what it held when the call started and the executor was
\* not called for it
UntouchedIdx(n, i) ==
    /\ FetchBatchBySeqNo(node[n].batches, IdxSeq(n, i)) =
           FetchBatchBySeqNo(before[n].batches, IdxSeq(n, i))
    /\ \A e \in node[n].execLog \ before[n].execLog : e.seqNo # incomplete[n][i].seqNo

\* C15: when the executor returns an error for the batch at index k, the call
\* returns that error, nothing is done for the indices above k, and the batches
\* stored for the indices below k in this call are in the store.
C15_ExecutorError ==
    \A k \in 1..Len(trace[1]) :
        ExecutorFailedAt(1, k) =>
            /\ pc[1] = "failed" /\ err[1] = "executor error"
            /\ Len(trace[1]) = k
            /\ \A i \in (k + 1)..Len(incomplete[1]) : UntouchedIdx(1, i)
            /\ \A i \in 1..(k - 1) :
                  trace[1][i].result \in {"StoredReorg", "StoredCanonical"} =>
                      /\ HasSeq(1, IdxSeq(1, i))
                      /\ ~ \E b \in FetchBatchBySeqNo(before[1].batches, IdxSeq(1, i)) : TRUE

\* the executor failed on the second batch, after the first was stored in this
\* call and with a third one to come
C15_Witness ==
    /\ pc[1] = "failed"
    /\ Len(incomplete[1]) >= 3
    /\ ExecutorFailedAt(1, 2)
    /\ trace[1][1].result = "StoredCanonical"
    /\ HasSeq(1, IdxSeq(1, 1))

\* the hashes of the batches the current call stored as executed before index k
StoredCanonicalBefore(n, k) ==
    {Hash(StoredHeader(n, IdxSeq(n, i))) :
        i \in {j \in 1..(k - 1) : trace[n][j].result = "StoredCanonical"}}

\* C16: no partial state is left for a failing batch. When the call failed in
\* the iteration of index k on the executor, the state commit or a store
\* write, nothing of that batch is persisted: no state committed, no batch in
\* the store, nothing marked executed, nothing announced to the registry.
C16_NoPartialState ==
    LET k == Len(trace[1])
    IN ( /\ pc[1] = "failed"
         /\ k >= 1
         /\ trace[1][k].result = "error"
         /\ trace[1][k].fail \in {"none", "exec", "commit", "store", "storeExecuted"} ) =>
            /\ FetchBatchBySeqNo(node[1].batches, IdxSeq(1, k)) =
                   FetchBatchBySeqNo(before[1].batches, IdxSeq(1, k))
            /\ node[1].committed \ before[1].committed \subseteq StoredCanonicalBefore(1, k)
            /\ node[1].executed \ before[1].executed \subseteq StoredCanonicalBefore(1, k)
            /\ \A r \in 1..Len(node[1].registry) :
                  node[1].registry[r] \in
                      StoredCanonicalBefore(1, k) \cup
                          {before[1].registry[q] : q \in 1..Len(before[1].registry)}

\* the error that opening the forged blob is to give
OpenError ==
    IF forged \in {"payloads", "header"} THEN "authentication failed"
    ELSE IF forged = "compression" THEN "decompression failed"
    ELSE "rlp: decoding failed"

\* C17: when one of the two blobs does not open (decryption, decompression or
\* decoding fails), every ProcessExtRollup call returns that error and leaves
\* the store, the executor state and the registry as they were.
C17_OpenFails ==
    (forged \in {"payloads", "header", "compression", "encoding"} /\ pc[1] # "idle") =>
        /\ pc[1] = "failed"
        /\ err[1] = OpenError
        /\ trace[1] = <<>> /\ incomplete[1] = <<>>
        /\ SameStore(node[1], before[1])

\* the payload blob was tampered with and a node with batches in its store
\* has processed the ExtRollup
C17_Witness ==
    /\ forged = "payloads"
    /\ pc[1] = "failed"
    /\ err[1] = "authentication failed"
    /\ node[1].batches # {}

\* the lowest L1 height the rollup refers to
MinProofHeight ==
    CHOOSE m \in {ProofHeight(i) : i \in 1..RollupLen} : \A i \in 1..RollupLen : m <= ProofHeight(i)

\* the blocks from the compression L1 head down to that height
HeadPath ==
    {b \in L1Blocks :
        IsL1Ancestor(b.hash, rollup.Header.CompressionL1Head) /\ b.number >= MinProofHeight}

MissingBlockErrors == {"can't find the block used for compression", "block not found"}

\* C18: the L1 proofs are resolved along the parent pointers from the
\* compression L1 head down to the lowest height of the rollup. When the head
\* or a block on that path is not in the block store, ProcessExtRollup fails
\* with the block store's error and stores nothing; otherwise every record has
\* as L1 proof the block of the path at its height.
C18_MissingBlock ==
    (forged \in {"none", "timeDelta"} /\ pc[1] # "idle") =>
        IF HeadPath \subseteq blockStore[1]
        THEN /\ err[1] \notin MissingBlockErrors
             /\ \A i \in 1..Len(incomplete[1]) :
                   \E b \in HeadPath :
                       b.number = ProofHeight(i) /\ incomplete[1][i].l1Proof = b.hash
        ELSE /\ pc[1] = "failed"
             /\ err[1] = IF FetchBlock(blockStore[1], rollup.Header.CompressionL1Head) = {}
                         THEN "can't find the block used for compression"
                         ELSE "block not found"
             /\ trace[1] = <<>>
             /\ SameStore(node[1], before[1])

\* the head is in the block store and a block below it on the path is not
C18_Witness ==
    /\ forged = "none"
    /\ pc[1] = "failed"
    /\ err[1] = "block not found"
    /\ FetchBlock(blockStore[1], rollup.Header.CompressionL1Head) # {}
    /\ ~ (HeadPath \subseteq blockStore[1])

\* the L1 height of the proofs falls somewhere along the rollup
NegativeL1Delta == \E i \in 2..RollupLen : ProofHeight(i) < ProofHeight(i - 1)

\* the errors of createIncompleteBatches
ReconstructionErrors ==
    MissingBlockErrors \cup
        { "programming error. L1 block not retrieved", "crit: negative height",
          "panic: index out of range" }

\* every record of the rollup was built, with the block of the head's path at
\* the height of its proof as L1 proof
Reconstructed(n) ==
    /\ Len(incomplete[n]) = RollupLen
    /\ \A i \in 1..RollupLen :
          \E b \in HeadPath : b.number = ProofHeight(i) /\ incomplete[n][i].l1Proof = b.hash

\* C19 as stated: a rollup with a negative L1 height delta is reconstructed
\* when every L1 block from the lowest resolved height up to the head is in the
\* block store, and reconstruction aborts with the error for a resolved height
\* that is not in the ancestor map (L1Gap) otherwise.
C19_L1Gap ==
    (NegativeL1Delta /\ forged \in {"none", "timeDelta"} /\ pc[1] # "idle") =>
        IF HeadPath \subseteq blockStore[1]
        THEN /\ err[1] \notin ReconstructionErrors
             /\ err[1] # "batch not found" => Reconstructed(1)
        ELSE /\ pc[1] = "failed"
             /\ err[1] = "programming error. L1 block not retrieved"

\* C19 amended: a rollup with a negative L1 height delta is reconstructed when
\* every L1 block from the lowest resolved height up to the head is in the
\* block store; when one of them is missing the call aborts with the block
\* store's missing-block error, before anything is stored.
C19_NegativeDelta ==
    (NegativeL1Delta /\ forged \in {"none", "timeDelta"} /\ pc[1] # "idle") =>
        IF HeadPath \subseteq blockStore[1]
        THEN /\ err[1] \notin ReconstructionErrors
             /\ err[1] # "batch not found" => Reconstructed(1)
        ELSE /\ pc[1] = "failed"
             /\ err[1] \in MissingBlockErrors
             /\ trace[1] = <<>>
             /\ SameStore(node[1], before[1])

\* a rollup with a falling L1 height was processed to the end
C19_Witness ==
    /\ NegativeL1Delta
    /\ forged = "none"
    /\ pc[1] = "done"
    /\ Reconstructed(1)

\* the header a node decoded has a negative time delta
NegativeTimeDelta(n) ==
    /\ header[n] # <<>>
    /\ \E i \in 1..Len(header[n][1].BatchTimeDeltas) :
          GobDecode(header[n][1].BatchTimeDeltas[i]) < 0

\* C20: ProcessExtRollup rejects a header with a negative decoded time delta:
\* it returns an error for the malformed input and stores no batch (the L1
\* blocks and the anchor batch of the rollup being there, so that no other
\* error comes first).
C20_NegativeTimeDelta ==
    ( /\ forged = "timeDelta" /\ pc[1] # "idle" /\ NegativeTimeDelta(1)
      /\ err[1] \notin MissingBlockErrors \cup {"batch not found"} ) =>
        /\ pc[1] = "failed"
        /\ err[1] = "malformed input: negative time delta"
        /\ trace[1] = <<>>
        /\ SameStore(node[1], before[1])


\* the ExtRollup has one transaction list fewer or more than its header has
\* time deltas and L1 height deltas (none at all for a rollup of one batch)
LengthMismatch == forged \in {"fewerTransactions", "moreTransactions"}

\* C21 as stated: when the number of transaction lists differs from the number
\* of time deltas and of L1 height deltas, or the rollup carries no batch,
\* ProcessExtRollup returns a malformed-input error and stores nothing.
C21_LengthMismatch ==
    (LengthMismatch /\ pc[1] # "idle" /\ err[1] \notin MissingBlockErrors) =>
        /\ pc[1] = "failed"
        /\ err[1] = "malformed input"
        /\ trace[1] = <<>>
        /\ SameStore(node[1], before[1])

\* C22 as stated: ProcessExtRollup looks at the interrupt flag before every
\* batch: once the host was told to stop, the call handles no further batch and
\* returns a cancellation error, leaving the store as the batches handled so
\* far left it.
C22_Interrupt ==
    [][(stopNodeInterrupt = 1 /\ pc[1] = "loop" /\ idx[1] <= Len(incomplete[1])) =>
           /\ pc'[1] = "failed"
           /\ err'[1] = "cancelled"
           /\ SameStore(node'[1], node[1])]_vars

\* C23: CreateExtRollup puts the outer header of the rollup into the ExtRollup
\* as it is, compression L1 head included; the step reads the sequencer's
\* store and leaves it, and the stores, executor state and registry of the
\* nodes, as they were.
C23_CreateReadsOnly ==
    [][(ext = <<>> /\ ext' # <<>>) =>
           /\ ext'[1].Header = rollup.Header
           /\ ext'[1].Header.CompressionL1Head = rollup.Header.CompressionL1Head
           /\ history' = history /\ rollup' = rollup
           /\ \A n \in Nodes : node'[n] = node[n]]_vars

\* an ExtRollup was built from a rollup with a re-orged batch (the store was
\* read for it) whose compression L1 head is not the proof of its last batch
C23_Witness ==
    /\ ext # <<>> /\ forged = "none"
    /\ ext[1].Header = rollup.Header
    /\ ~ calldata[1].ReOrgs.isNil
    /\ rollup.Header.CompressionL1Head # rollup.Batches[RollupLen].Header.L1Proof

\* the collaborator calls node n made for the batch of index i in the current
\* call, in order, each with its outcome
BatchOps(n, i) ==
    LET ForBatch(o) == o.seqNo = U64(incomplete[n][i].seqNo)
        ops == SelectSeq(node[n].ops, ForBatch)
    IN [k \in 1..Len(ops) |-> <<ops[k].op, ops[k].outcome>>]

\* the calls of a batch that is skipped, of one stored as a reorg, and of one
\* executed and stored (the genesis batch, any other batch)
SkippedOps == << <<"FetchBatchBySeqNo", "found">> >>

StoredReorgOps == << <<"FetchBatchBySeqNo", "not found">>, <<"StoreBatch", "ok">> >>

StoredGenesisOps ==
    << <<"FetchBatchBySeqNo", "not found">>, <<"CreateGenesisState", "ok">>,
       <<"StoreBatch", "ok">>, <<"StoreExecutedBatch", "ok">>, <<"OnBatchExecuted", "ok">> >>

StoredCanonicalOps ==
    << <<"FetchBatchBySeqNo", "not found">>, <<"ComputeBatch", "ok">>, <<"Commit", "ok">>,
       <<"StoreBatch", "ok">>, <<"StoreExecutedBatch", "ok">>, <<"OnBatchExecuted", "ok">> >>

\* the terminal state the calls of a batch amount to ("Pending": none)
StateOf(ops) ==
    IF ops = SkippedOps THEN "Skipped"
    ELSE IF ops = StoredReorgOps THEN "StoredReorg"
    ELSE IF ops \in {StoredGenesisOps, StoredCanonicalOps} THEN "StoredCanonical"
    ELSE "Pending"

\* C24: when ProcessExtRollup has returned without error, every batch of the
\* rollup was handled exactly once (one look-up, one iteration) and the calls
\* made for it are those of exactly one of Skipped, StoredReorg and
\* StoredCanonical.
C24_OneTerminalState ==
    pc[1] = "done" =>
        /\ Len(trace[1]) = Len(incomplete[1])
        /\ \A i \in 1..Len(incomplete[1]) :
              /\ StateOf(BatchOps(1, i)) \in {"Skipped", "StoredReorg", "StoredCanonical"}
              /\ trace[1][i].result = StateOf(BatchOps(1, i))

\* one call has ended a batch in each of the three states
C24_Witness ==
    /\ pc[1] = "done"
    /\ Len(incomplete[1]) = 3
    /\ {StateOf(BatchOps(1, i)) : i \in 1..3} = {"Skipped", "StoredReorg", "StoredCanonical"}

\* the step is an iteration of the loop of node 1 whose look-up did not fail
Handled ==
    /\ pc[1] = "loop"
    /\ Len(trace'[1]) = Len(trace[1]) + 1
    /\ trace'[1][Len(trace'[1])].fail # "fetch"

\* the iteration the step makes ended the batch in the given terminal state
EndedIn(state) ==
    /\ trace'[1][Len(trace'[1])].result = state
    /\ pc'[1] = "loop"

\* C25 as stated: a batch is skipped exactly when the store holds a batch with
\* its sequence number and no reorg header is carried for it; nothing is then
\* executed or stored and the hash of the stored batch becomes the parent hash.
C25_SkippedUnlessReorg ==
    [][Handled =>
           /\ EndedIn("Skipped") <=>
                  (HasSeq(1, IdxSeq(1, idx[1])) /\ incomplete[1][idx[1]].header = <<>>)
           /\ EndedIn("Skipped") =>
                  /\ SameStore(node'[1], node[1])
                  /\ node'[1].parentHash = Hash(StoredHeader(1, IdxSeq(1, idx[1])))]_vars

\* C25 amended: a batch is skipped exactly when the store holds a batch with
\* its sequence number, with or without a reorg header carried for it; nothing
\* is then executed or stored; the hash of the stored batch becomes the parent
\* hash when no reorg header is carried, and the parent hash stays when one is.
C25_Skipped ==
    [][Handled =>
           /\ EndedIn("Skipped") <=> HasSeq(1, IdxSeq(1, idx[1]))
           /\ EndedIn("Skipped") =>
                  /\ SameStore(node'[1], node[1])
                  /\ node'[1].parentHash =
                         IF incomplete[1][idx[1]].header = <<>>
                         THEN Hash(StoredHeader(1, IdxSeq(1, idx[1])))
                         ELSE node[1].parentHash]_vars

\* one call skipped a batch with a reorg header carried, keeping the parent
\* hash, and a batch without, taking the hash of the stored batch
C25_Witness ==
    /\ pc[1] = "done"
    /\ \E i, j \in 1..Len(incomplete[1]) :
          /\ StateOf(BatchOps(1, i)) = "Skipped" /\ incomplete[1][i].header # <<>>
          /\ trace[1][i].parentOut = trace[1][i].parentIn
          /\ trace[1][i].parentOut # Hash(StoredHeader(1, IdxSeq(1, i)))
          /\ StateOf(BatchOps(1, j)) = "Skipped" /\ incomplete[1][j].header = <<>>
          /\ trace[1][j].parentOut = Hash(StoredHeader(1, IdxSeq(1, j)))
          /\ trace[1][j].parentOut # trace[1][j].parentIn

\* the step is an iteration of the loop of node 1 for a batch with a reorg
\* header carried, in which no collaborator call failed
HandledReorg ==
    /\ Handled
    /\ trace'[1][Len(trace'[1])].fail = "none"
    /\ incomplete[1][idx[1]].header # <<>>

\* the batch made of the carried header and the transactions of the record
CarriedBatch(n, i) ==
    [Header |-> incomplete[n][i].header[1], Transactions |-> incomplete[n][i].transactions]

\* StoreBatch is called with the carried batch, which the store of node 1
\* then holds, and nothing else changes: no execution, no commit, no
\* notification, the parent hash stays
StoresCarriedBatch ==
    /\ node'[1].ops[Len(node'[1].ops)] =
           [op |-> "StoreBatch", seqNo |-> IdxSeq(1, idx[1]), outcome |-> "ok"]
    /\ node'[1].batches = node[1].batches \cup {CarriedBatch(1, idx[1])}
    /\ node'[1].executed = node[1].executed
    /\ node'[1].committed = node[1].committed
    /\ node'[1].registry = node[1].registry
    /\ node'[1].execLog = node[1].execLog
    /\ node'[1].parentHash = node[1].parentHash

\* C26 as stated: whenever a reorg header is carried for a batch, the store is
\* written with the carried header and the transactions of the batch, nothing
\* is executed and the registry is not notified, also when the store already
\* has a batch with that sequence number.
C26_ReorgAlwaysStored ==
    [][HandledReorg => (EndedIn("StoredReorg") /\ StoresCarriedBatch)]_vars

\* C26 amended: when a reorg header is carried for a batch and the store has no
\* batch with that sequence number, the store is written with the carried
\* header and the transactions of the batch, nothing is executed and the
\* registry is not notified; when the store already has a batch with that
\* sequence number the batch is skipped and the store is not written.
C26_ReorgStored ==
    [][HandledReorg =>
           IF HasSeq(1, IdxSeq(1, idx[1]))
           THEN EndedIn("Skipped") /\ SameStore(node'[1], node[1])
           ELSE EndedIn("StoredReorg") /\ StoresCarriedBatch]_vars

\* a call has stored a batch with the header carried for it, unexecuted
C26_Witness ==
    /\ pc[1] = "done"
    /\ \E i \in 1..Len(incomplete[1]) :
          /\ StateOf(BatchOps(1, i)) = "StoredReorg"
          /\ CarriedBatch(1, i) \in node[1].batches
          /\ CarriedBatch(1, i) \notin before[1].batches
          /\ Hash(incomplete[1][i].header[1]) \notin node[1].executed

\* OnBatchExecuted was called for the batch of index i in the current call
Notified(n, i) == \E k \in 1..Len(BatchOps(n, i)) : BatchOps(n, i)[k][1] = "OnBatchExecuted"

RECURSIVE Announced(_, _)
\* the hashes of the batches among the first k of the rollup that the current
\* call executed and stored, in index order
Announced(n, k) ==
    IF k = 0 THEN <<>>
    ELSE IF StateOf(BatchOps(n, k)) = "StoredCanonical"
         THEN Append(Announced(n, k - 1), Hash(StoredHeader(n, IdxSeq(n, k))))
    ELSE Announced(n, k - 1)

\* C27: a batch ends as StoredCanonical only with the calls of an executed
\* batch, all successful and in this order: the executor (ComputeBatch and the
\* commit of its state, or CreateGenesisState), StoreBatch, StoreExecutedBatch,
\* and then the registry. The registry is notified for these batches only,
\* once each, in rollup index order.
C27_StoredCanonical ==
    pc[1] # "idle" =>
        /\ \A i \in 1..Len(trace[1]) :
              /\ trace[1][i].result = "StoredCanonical" <=>
                     StateOf(BatchOps(1, i)) = "StoredCanonical"
              /\ Notified(1, i) <=> StateOf(BatchOps(1, i)) = "StoredCanonical"
              /\ StateOf(BatchOps(1, i)) = "StoredCanonical" =>
                     /\ HasSeq(1, IdxSeq(1, i))
                     /\ Hash(StoredHeader(1, IdxSeq(1, i))) \in node[1].executed
                     /\ Hash(StoredHeader(1, IdxSeq(1, i))) \in node[1].committed
        /\ node[1].registry = before[1].registry \o Announced(1, Len(trace[1]))

\* a call has executed and stored two batches, with a batch between them that
\* it skipped or stored as a reorg
C27_Witness ==
    /\ pc[1] = "done"
    /\ Len(trace[1]) = 3
    /\ StateOf(BatchOps(1, 1)) = "StoredCanonical"
    /\ StateOf(BatchOps(1, 2)) \in {"Skipped", "StoredReorg"}
    /\ StateOf(BatchOps(1, 3)) = "StoredCanonical"
    /\ Len(node[1].registry) = Len(before[1].registry) + 2

\* the step is an iteration of node 1, with no collaborator call failing, for
\* a batch with the genesis sequence number, no reorg header and not in the store
HandledGenesis ==
    /\ Handled
    /\ trace'[1][Len(trace'[1])].fail = "none"
    /\ IdxSeq(1, idx[1]) = L2GenesisSeqNo
    /\ incomplete[1][idx[1]].header = <<>>
    /\ ~ HasSeq(1, L2GenesisSeqNo)

\* the batch the executor creates for the genesis record of index i
GenesisOf(n, i) ==
    CreateGenesisState(incomplete[n][i].l1Proof, incomplete[n][i].time,
                       header[n][1].Coinbase, header[n][1].BaseFee)

\* the calls of an iteration, with the sequence number they are made for
OpsFor(ops, seqNo) == [k \in 1..Len(ops) |-> [op |-> ops[k][1], seqNo |-> seqNo, outcome |-> ops[k][2]]]

\* C28: a batch with the genesis sequence number, no reorg header and not yet
\* in the store is created by CreateGenesisState from its L1 proof, its time,
\* the coinbase and the base fee, and not by ComputeBatch; it is stored as an
\* executed batch, the registry is told, and its hash is the parent hash for
\* the next batch. A rollup that starts at the genesis sequence number is not
\* refused for a missing anchor.
C28_Genesis ==
    [][/\ HandledGenesis =>
              /\ EndedIn("StoredCanonical")
              /\ node'[1].ops = node[1].ops \o OpsFor(StoredGenesisOps, L2GenesisSeqNo)
              /\ node'[1].batches = node[1].batches \cup {GenesisOf(1, idx[1])}
              /\ node'[1].executed = node[1].executed \cup {Hash(GenesisOf(1, idx[1]).Header)}
              /\ node'[1].registry = Append(node[1].registry, Hash(GenesisOf(1, idx[1]).Header))
              /\ node'[1].parentHash = Hash(GenesisOf(1, idx[1]).Header)
              /\ \A e \in node'[1].execLog \ node[1].execLog : e.op = "genesis"
       /\ (header'[1] # <<>> /\ U64(header'[1][1].FirstBatchSequence) = L2GenesisSeqNo) =>
              err'[1] # "batch not found"]_vars

\* a node with an empty store has processed a rollup that starts with the
\* genesis batch: it created it, and executed the next batch on top of it
C28_Witness ==
    /\ pc[1] = "done"
    /\ before[1].batches = {}
    /\ Len(incomplete[1]) >= 2
    /\ IdxSeq(1, 1) = L2GenesisSeqNo
    /\ BatchOps(1, 1) = StoredGenesisOps
    /\ GenesisOf(1, 1) \in node[1].batches
    /\ StateOf(BatchOps(1, 2)) = "StoredCanonical"
    /\ trace[1][2].parentIn = Hash(GenesisOf(1, 1).Header)

RECURSIVE OpsUpTo(_, _)
\* the calls logged for the first k batches of the rollup, batch after batch
OpsUpTo(n, k) ==
    IF k = 0 THEN <<>>
    ELSE LET ForBatch(o) == o.seqNo = IdxSeq(n, k)
         IN OpsUpTo(n, k - 1) \o SelectSeq(node[n].ops, ForBatch)

\* the parent hash that the canonical batches below index k give: the hash of
\* the stored batch of the last of them, the anchor of the header if none
ParentFromCanon(n, k) ==
    IF CanonBefore(n, k) = {} THEN header[n][1].FirstCanonParentHash
    ELSE Hash(StoredHeader(n, IdxSeq(n, LastCanonBefore(n, k))))

\* C29: the record of index i (from 0) has sequence number FirstBatchSequence
\* + i; the batches are handled in ascending index, the calls for a batch all
\* made, and its terminal state reached, before the first call for the next;
\* the parent hash an iteration starts with is given by the canonical batches
\* at lower indices alone.
C29_AscendingOrder ==
    (pc[1] # "idle" /\ header[1] # <<>>) =>
        /\ \A i \in 1..Len(incomplete[1]) :
              incomplete[1][i].seqNo = I64(header[1][1].FirstBatchSequence) + (i - 1)
        /\ node[1].ops = OpsUpTo(1, Len(trace[1]))
        /\ \A i \in 1..Len(trace[1]) :
              /\ (i < Len(trace[1]) \/ pc[1] # "failed") => StateOf(BatchOps(1, i)) # "Pending"
              /\ trace[1][i].parentIn = ParentFromCanon(1, i)

\* three batches were handled, the second with a reorg header carried, the
\* third executed on the hash of the first
C29_Witness ==
    /\ pc[1] = "done"
    /\ Len(trace[1]) = 3
    /\ incomplete[1][2].header # <<>>
    /\ StateOf(BatchOps(1, 3)) = "StoredCanonical"
    /\ Len(node[1].ops) > 3
    /\ trace[1][3].parentIn = Hash(StoredHeader(1, IdxSeq(1, 1)))

\* the sequence numbers of the batches the sequencer's store lists as
\* non-canonical in the range of the rollup
NonCanonicalSeqs ==
    {b.Header.SequencerNo :
        b \in FetchNonCanonicalBatchesBetween(history, rollup.Batches[1].Header.SequencerNo,
                                              rollup.Batches[RollupLen].Header.SequencerNo)}

\* C30: when the store lists a non-canonical batch in the range of the rollup,
\* the ReOrgs field built has one entry for every batch: the serialised header
\* of the batch when its sequence number is among the non-canonical ones, the
\* empty byte string when not. The records built from the ExtRollup carry a
\* reorg header exactly at the indices with a non-empty entry, and it is the
\* header of the batch.
C30_Reorgs ==
    (calldata # <<>> /\ NonCanonicalSeqs # {}) =>
        /\ ~ calldata[1].ReOrgs.isNil
        /\ Len(calldata[1].ReOrgs.elems) = RollupLen
        /\ \A i \in 1..RollupLen :
              calldata[1].ReOrgs.elems[i] =
                  IF rollup.Batches[i].Header.SequencerNo \in NonCanonicalSeqs
                  THEN RlpEncodeHeader(rollup.Batches[i].Header)
                  ELSE <<>>
        /\ (forged = "none" /\ pc[1] \in {"loop", "done"}) =>
              /\ Len(incomplete[1]) = RollupLen
              /\ \A i \in 1..RollupLen :
                    /\ incomplete[1][i].header # <<>> <=> calldata[1].ReOrgs.elems[i] # <<>>
                    /\ incomplete[1][i].header # <<>> =>
                           incomplete[1][i].header[1] = rollup.Batches[i].Header

\* a node has built the records of a rollup of three batches of which the
\* second is non-canonical: [empty, header, empty]
C30_Witness ==
    /\ calldata # <<>> /\ forged = "none" /\ pc[1] = "loop"
    /\ RollupLen = 3
    /\ NonCanonicalSeqs = {rollup.Batches[2].Header.SequencerNo}
    /\ calldata[1].ReOrgs.elems =
           <<(<<>>), RlpEncodeHeader(rollup.Batches[2].Header), (<<>>)>>
    /\ incomplete[1][2].header = <<rollup.Batches[2].Header>>
    /\ incomplete[1][1].header = <<>> /\ incomplete[1][3].header = <<>>

RECURSIVE SumOfDeltas(_, _)
\* the sum of the first i decoded deltas, in the integers
SumOfDeltas(deltas, i) ==
    IF i = 0 THEN 0 ELSE SumOfDeltas(deltas, i - 1) + GobDecode(deltas[i])

\* node n has built the records of the ExtRollup
RecordsBuilt(n) == header[n] # <<>> /\ Len(incomplete[n]) > 0

\* C31 as stated: the time of the record of index i is the start time plus the
\* sum of the time deltas up to i; for a header built by createRollupHeader it
\* is the time of the batch of index i.
C31_Times ==
    RecordsBuilt(1) =>
        \A i \in 1..Len(incomplete[1]) :
            /\ incomplete[1][i].time =
                   header[1][1].StartTime + SumOfDeltas(header[1][1].BatchTimeDeltas, i)
            /\ forged = "none" => incomplete[1][i].time = rollup.Batches[i].Header.Time

\* the L1 height resolved for index i of the header node n decoded: the first
\* entry read as an unsigned height, plus the deltas after it
L1HeightOf(n, i) ==
    LET deltas == header[n][1].L1HeightDeltas
    IN BigUint64(GobDecode(deltas[1])) + SumOfDeltas(deltas, i) - GobDecode(deltas[1])

\* the number of transaction lists of the ExtRollup
ListCount == Len(openTransactions(ext[1]).val)

\* the lowest L1 height resolved for the header node n decoded (the first
\* height when the ExtRollup has no transaction list)
MinL1Height(n) ==
    IF ListCount = 0 THEN L1HeightOf(n, 1)
    ELSE CHOOSE m \in {L1HeightOf(n, i) : i \in 1..ListCount} :
            \A i \in 1..ListCount : m <= L1HeightOf(n, i)

\* the map the ancestor resolver of node n builds for the ExtRollup
L1BlocksAtHeight(n) ==
    calcL1AncestorsOfHeight(blockStore[n], MinL1Height(n),
                            BlockOf(ext[1].Header.CompressionL1Head), {}).val

\* the ancestor resolver of node n has run and succeeded
ResolverSucceeded(n) ==
    /\ pc[n] # "idle" /\ header[n] # <<>>
    /\ err[n] \notin MissingBlockErrors \cup CrashErrors

\* the height of the compression L1 head of the ExtRollup
HeadHeight == BlockOf(ext[1].Header.CompressionL1Head).number

\* the indices of the ExtRollup with an L1 height above the head's
AboveHead(n) == {i \in 1..ListCount : L1HeightOf(n, i) > HeadHeight}

\* the map of the resolver of node n is the chain of the head from the lowest
\* resolved height upwards, with one block for every height
MapIsHeadChain(n) ==
    /\ L1BlocksAtHeight(n) =
           {b \in L1Blocks :
               /\ IsL1Ancestor(b.hash, ext[1].Header.CompressionL1Head)
               /\ b.number >= MinL1Height(n)}
    /\ \A h \in MinL1Height(n)..HeadHeight :
          Cardinality({b \in L1BlocksAtHeight(n) : b.number = h}) = 1

\* the L1 proof of every record built is the block of the map at its height
ProofsFromMap(n) ==
    \A i \in 1..Len(incomplete[n]) :
        \E b \in L1BlocksAtHeight(n) :
            b.number = L1HeightOf(n, i) /\ incomplete[n][i].l1Proof = b.hash

\* C32 as stated: when the ancestor resolver has succeeded, its map holds the
\* blocks of the chain of the compression L1 head from the lowest resolved
\* height up to the head, one for every height, hence a block for every height
\* of the header, and the L1 proof of every record is the hash of the block of
\* the map at the L1 height of its index.
C32_AncestorMapAll ==
    ResolverSucceeded(1) =>
        /\ MapIsHeadChain(1)
        /\ \A i \in 1..ListCount :
              \E b \in L1BlocksAtHeight(1) : b.number = L1HeightOf(1, i)
        /\ err[1] # "programming error. L1 block not retrieved"
        /\ ProofsFromMap(1)

\* C32: when the ancestor resolver has succeeded, its map holds the blocks of
\* the chain of the compression L1 head from the lowest resolved height up to
\* the head, one for every height, hence a block for every height of the header
\* that is not above the head's; a height above the head's is not in the map,
\* and the call then fails with "L1 block not retrieved" and builds no record.
\* The L1 proof of every record built is the hash of the block of the map at
\* the L1 height of its index.
C32_AncestorMap ==
    ResolverSucceeded(1) =>
        /\ MapIsHeadChain(1)
        /\ \A i \in (1..ListCount) \ AboveHead(1) :
              \E b \in L1BlocksAtHeight(1) : b.number = L1HeightOf(1, i)
        /\ \A i \in AboveHead(1) :
              ~ \E b \in L1BlocksAtHeight(1) : b.number = L1HeightOf(1, i)
        /\ AboveHead(1) # {} <=>
              /\ pc[1] = "failed"
              /\ err[1] = "programming error. L1 block not retrieved"
              /\ incomplete[1] = <<>>
        /\ ProofsFromMap(1)

\* the records of three batches were built from a map of several blocks, with
\* a batch below the head and a block of the store off the head's chain
C32_Witness ==
    /\ ResolverSucceeded(1) /\ pc[1] = "done"
    /\ Len(incomplete[1]) = 3
    /\ Cardinality(L1BlocksAtHeight(1)) >= 2
    /\ \E i \in 1..3 : L1HeightOf(1, i) < BlockOf(ext[1].Header.CompressionL1Head).number
    /\ \E b \in blockStore[1] : b \notin L1BlocksAtHeight(1)

\* the rollup indices for which the decoded header carries a reorg header
CarriedIdx(n) == (1..Len(incomplete[n])) \ CanonIdx(n)

\* C33 as stated: the height of the record of a reorg batch is the height of
\* the header carried for it, not a value of the canonical height counter.
C33_ReorgHeightOfHeader ==
    RecordsBuilt(1) =>
        \A i \in CarriedIdx(1) : incomplete[1][i].height = incomplete[1][i].header[1].Number

\* C33 amended: the height of the record of a reorg batch is the value of the
\* canonical height counter, which the batch does not advance (the first
\* canonical height less one, plus the number of canonical indices below); the
\* height of the header carried for it is the height the batch is stored with.
C33_ReorgHeight ==
    RecordsBuilt(1) =>
        \A i \in CarriedIdx(1) :
            /\ incomplete[1][i].height =
                   (header[1][1].FirstCanonBatchHeight - 1) + Cardinality(CanonBefore(1, i))
            /\ (i <= Len(trace[1]) /\ StateOf(BatchOps(1, i)) = "StoredReorg") =>
                   StoredHeader(1, IdxSeq(1, i)).Number = incomplete[1][i].header[1].Number

\* a reorg batch was stored with the height of its header, which is not the
\* height of its record
C33_Witness ==
    /\ pc[1] = "done"
    /\ \E i \in CarriedIdx(1) :
          /\ StateOf(BatchOps(1, i)) = "StoredReorg"
          /\ incomplete[1][i].height # incomplete[1][i].header[1].Number
          /\ StoredHeader(1, IdxSeq(1, i)).Number = incomplete[1][i].header[1].Number

\* the records node 1 would build from the header as createRollupHeader built it
RecordsOfBuiltHeader ==
    createIncompleteBatches(calldata[1], openTransactions(ext[1]).val,
                            ext[1].Header.CompressionL1Head, blockStore[1]).val

\* C34: a header whose ReOrgs vector is present with every entry empty is
\* processed as the same header with the vector absent: the records are the
\* same, every batch is canonical, the height counter advances on every batch
\* and the batches stored are those of the rollup.
C34_EmptyReorgs ==
    (forged \in {"none", "emptyReorgs"} /\ calldata # <<>> /\ calldata[1].ReOrgs.isNil
       /\ RecordsBuilt(1)) =>
        /\ header[1][1].ReOrgs.isNil <=> forged = "none"
        /\ incomplete[1] = RecordsOfBuiltHeader
        /\ \A i \in 1..Len(incomplete[1]) :
              /\ incomplete[1][i].header = <<>>
              /\ incomplete[1][i].height = header[1][1].FirstCanonBatchHeight + (i - 1)
        /\ pc[1] = "done" =>
              \A i \in 1..RollupLen : rollup.Batches[i] \in node[1].batches

\* a rollup of several batches whose header came with a ReOrgs vector of empty
\* entries was executed and stored by a node that had none of them
C34_Witness ==
    /\ forged = "emptyReorgs" /\ pc[1] = "done"
    /\ RollupLen >= 2
    /\ ~ header[1][1].ReOrgs.isNil
    /\ Len(header[1][1].ReOrgs.elems) = RollupLen
    /\ \A i \in 1..RollupLen :
          /\ header[1][1].ReOrgs.elems[i] = <<>>
          /\ StateOf(BatchOps(1, i)) = "StoredCanonical"

\* the batch of index k was executed and stored in the current call of node n
\* and no index below k is canonical
FirstCanonExecuted(n, k) ==
    /\ k \in 1..Len(trace[n])
    /\ StateOf(BatchOps(n, k)) = "StoredCanonical"
    /\ CanonBefore(n, k) = {}

\* C35: the iteration for a canonical batch with no canonical batch before it
\* in the rollup starts with the first canonical parent hash of the header,
\* also when reorg batches precede it: the executor is called with it, and the
\* batch, once executed, is stored with it as parent hash.
C35_FirstCanonParent ==
    \A k \in 1..Len(trace[1]) :
        (k \in CanonIdx(1) /\ CanonBefore(1, k) = {}) =>
            /\ trace[1][k].parentIn = header[1][1].FirstCanonParentHash
            /\ \A e \in node[1].execLog :
                  e.seqNo = incomplete[1][k].seqNo =>
                      e.parent = IF e.op = "genesis" THEN ZeroHash
                                 ELSE header[1][1].FirstCanonParentHash
            /\ FirstCanonExecuted(1, k) =>
                  /\ \E e \in node[1].execLog : e.seqNo = incomplete[1][k].seqNo
                  /\ StoredHeader(1, IdxSeq(1, k)).ParentHash =
                         header[1][1].FirstCanonParentHash

\* the first batch of the rollup is a reorg, stored in this call, and the
\* second was executed on the anchor of the header
C35_Witness ==
    /\ pc[1] = "done"
    /\ Len(trace[1]) >= 2
    /\ StateOf(BatchOps(1, 1)) = "StoredReorg"
    /\ FirstCanonExecuted(1, 2)
    /\ BatchOps(1, 2) = StoredCanonicalOps
    /\ header[1][1].FirstCanonParentHash # ZeroHash
    /\ StoredHeader(1, IdxSeq(1, 2)).ParentHash = header[1][1].FirstCanonParentHash

\* the header node n decoded is of a rollup that does not start at genesis and
\* its anchor was not in the store of the node when the call started
AnchorAbsent(n) ==
    /\ pc[n] # "idle" /\ header[n] # <<>>
    /\ U64(header[n][1].FirstBatchSequence) # L2GenesisSeqNo
    /\ FetchBatch(before[n].batches, header[n][1].FirstCanonParentHash) = {}

\* C36: when the rollup does not start at genesis and no batch with the first
\* canonical parent hash is in the store, ProcessExtRollup returns an error
\* once the records are built and before the first batch is handled: nothing
\* is looked up, executed, stored or announced.
C36_AnchorMissing ==
    (AnchorAbsent(1) /\ err[1] \notin ReconstructionErrors) =>
        /\ pc[1] = "failed"
        /\ err[1] = "batch not found"
        /\ trace[1] = <<>> /\ node[1].ops = <<>>
        /\ SameStore(node[1], before[1])

\* the call failed for the anchor on a node that has batches and every L1 block
C36_Witness ==
    /\ AnchorAbsent(1)
    /\ pc[1] = "failed" /\ err[1] = "batch not found"
    /\ node[1].batches # {}
    /\ blockStore[1] = L1Blocks

\* the errors of opening the two blobs
OpenErrors == {"authentication failed", "decompression failed", "rlp: decoding failed"}

\* C37: the blobs are opened and the records of all the batches built, times,
\* L1 proofs and reorg headers included, before the first look-up, executor
\* call or store write: a call that ends while the records are built, with an
\* error or with a crash, leaves the store, the executor state and the
\* registry as they were, and a call that has reached the loop has a record
\* for every transaction list of the ExtRollup.
C37_BuildBeforeWrite ==
    pc[1] # "idle" =>
        /\ err[1] \in OpenErrors \cup ReconstructionErrors =>
              /\ pc[1] \in {"failed", "crashed"}
              /\ trace[1] = <<>> /\ node[1].ops = <<>>
              /\ SameStore(node[1], before[1])
        /\ (pc[1] \in {"loop", "done"} \/ node[1].ops # <<>>) =>
              /\ header[1] # <<>>
              /\ Len(incomplete[1]) = ListCount

\* a node with batches in its store has found the head of a rollup of several
\* batches, of which it holds the first, and not a block further down
C37_Witness ==
    /\ pc[1] = "failed" /\ err[1] = "block not found"
    /\ ListCount >= 2
    /\ header[1] # <<>>
    /\ HasSeq(1, U64(header[1][1].FirstBatchSequence))
    /\ SameStore(node[1], before[1])

\* the greatest height of an L1 block
MaxL1Height ==
    CHOOSE m \in {b.number : b \in L1Blocks} : \A b \in L1Blocks : b.number <= m

\* the blocks the walk from toBlock can come to in blocks: toBlock and the
\* ancestors of it whose descendants up to toBlock's parent are all in blocks
Walkable(blocks, toBlock) ==
    {c \in L1Blocks :
        /\ IsL1Ancestor(c.hash, toBlock.hash)
        /\ \A d \in L1Blocks :
              (IsL1Ancestor(c.hash, d.hash) /\ IsL1Ancestor(d.hash, toBlock.hash)
                  /\ d # toBlock) => d \in blocks}

\* the walk from toBlock down to fromHeight in blocks ends: with the blocks
\* from toBlock down to the block at fromHeight, one step for every height,
\* when it can come to a block at that height, with the error of the block
\* store when it cannot
WalkEnds(blocks, fromHeight, toBlock) ==
    LET res == calcL1AncestorsOfHeight(blocks, fromHeight, toBlock, {})
    IN IF \E c \in Walkable(blocks, toBlock) : c.number = fromHeight
       THEN /\ res.err = ""
            /\ res.val = {c \in Walkable(blocks, toBlock) : c.number >= fromHeight}
            /\ Cardinality(res.val) = toBlock.number - fromHeight + 1
       ELSE res = Err("block not found")

\* the heights were resolved and the head of the ExtRollup was found by node n
WalkStarted(n) ==
    /\ pc[n] # "idle" /\ header[n] # <<>>
    /\ err[n] \notin {"can't find the block used for compression", "crit: negative height"}
    /\ calculateL1HeightsFromDeltas(header[n][1], openTransactions(ext[1]).val).err = ""

\* C38: the walk along the parent pointers ends for every block of the block
\* store and every last height, with success when it comes to a block at that
\* height and with the error of the block store when it does not, a last
\* height above the head's included; ProcessExtRollup then fails with that
\* error, with no record built and nothing stored.
C38_WalkEnds ==
    /\ \A toBlock \in blockStore[1] : \A fromHeight \in 0..(MaxL1Height + 1) :
          WalkEnds(blockStore[1], fromHeight, toBlock)
    /\ WalkStarted(1) =>
          LET head == BlockOf(ext[1].Header.CompressionL1Head)
          IN IF \E c \in Walkable(blockStore[1], head) : c.number = MinL1Height(1)
             THEN err[1] # "block not found"
             ELSE /\ pc[1] = "failed" /\ err[1] = "block not found"
                  /\ incomplete[1] = <<>> /\ trace[1] = <<>>
                  /\ SameStore(node[1], before[1])

\* a node with every L1 block and batches in its store was given a head below
\* the lowest height of the rollup: the walk came to the first block of the
\* chain and ended with the error
C38_Witness ==
    /\ WalkStarted(1)
    /\ blockStore[1] = L1Blocks
    /\ MinL1Height(1) > HeadHeight
    /\ pc[1] = "failed" /\ err[1] = "block not found"
    /\ node[1].batches # {}

\* calculateL1HeightsFromDeltas was called by node n: the header was decoded
\* and the head of the ExtRollup found
HeightsCalculated(n) ==
    /\ pc[n] # "idle" /\ header[n] # <<>>
    /\ err[n] # "can't find the block used for compression"
    /\ Len(header[n][1].L1HeightDeltas) >= ListCount
    /\ Len(header[n][1].L1HeightDeltas) >= 1

\* C39: every L1 height calculateL1HeightsFromDeltas returns is the sum of the
\* L1 height deltas up to its index and is not negative; when a sum is below
\* zero no height is returned for it and no block is looked up with it: the
\* call ends there, with no record built.
C39_L1Heights ==
    HeightsCalculated(1) =>
        LET deltas == header[1][1].L1HeightDeltas
            res == calculateL1HeightsFromDeltas(header[1][1], openTransactions(ext[1]).val)
        IN /\ res.err = "" =>
                 \A i \in 1..Len(res.val) :
                     res.val[i] = SumOfDeltas(deltas, i) /\ res.val[i] >= 0
           /\ (\E i \in 1..Len(deltas) : i <= ListCount \/ i = 1) /\
              (\E i \in 1..Len(deltas) :
                    (i <= ListCount \/ i = 1) /\ SumOfDeltas(deltas, i) < 0) =>
                 /\ res.err # ""
                 /\ pc[1] = "crashed" /\ err[1] = "crit: negative height"
                 /\ incomplete[1] = <<>> /\ trace[1] = <<>>

\* a turn of the main loop was taken: the loop holds another flag
RoundStarted == roundInterrupt' # roundInterrupt

\* the callback of flag f starts to run
CallbackRuns(f) ==
    /\ f \in DOMAIN callbacks
    /\ callbacks[f] # "running" /\ callbacks'[f] = "running"

\* every round gets a flag that no round had before and that is 0, and the flag
\* of the round before is set; the callback of a round does not run when the
\* flag of the round was set before its delay elapsed
HostRounds ==
    [][ /\ RoundStarted =>
              /\ roundInterrupt' \notin DOMAIN interrupts
              /\ interrupts'[roundInterrupt'] = 0
              /\ interrupts'[roundInterrupt] = 1
        /\ \A f \in 1..(MaxRounds + 1) : CallbackRuns(f) => elapsedWith[f] = 0 ]_vars

\* C40: every round of the host's main loop gets a new flag that is 0, and
\* handling an L1 block or a fork sets the flag of the round before to 1; the
\* round-winner callback of a round does not run when the flag of the round was
\* set before its delay elapsed, and no callback publishes a rollup once the
\* stop flag of the node is set.
C40_Interrupts ==
    [][ /\ RoundStarted =>
              /\ roundInterrupt' \notin DOMAIN interrupts
              /\ interrupts'[roundInterrupt'] = 0
              /\ interrupts'[roundInterrupt] = 1
        /\ \A f \in 1..(MaxRounds + 1) : CallbackRuns(f) => elapsedWith[f] = 0
        /\ published' # published => stopNodeInterrupt = 0 ]_vars
====
